---------------------------- MODULE Spec2Model ----------------------------
(***************************************************************************)
(* A model of the OpenLABEL annotation parser of fiftyone                  *)
(* (src/fiftyone/utils/openlabel.py): the stream and object registries,    *)
(* their create-or-update ingestion, the resolution of a media URI to      *)
(* stream infos and objects, and the projection of shapes to labels.       *)
(*                                                                         *)
(* Conventions.  Python's None is the empty tuple and a present value x is *)
(* <<x>>.  A dict with string keys is a function whose domain is the set   *)
(* of its keys.  Label file ids, stream names, object keys and element ids *)
(* are sequences of one-character strings, so that "%s_%s" and slicing are *)
(* computed as the code computes them.  An operation that raises leaves    *)
(* the name of the exception in result.status.                             *)
(***************************************************************************)
EXTENDS Integers, Sequences, FiniteSets, TLC

VARIABLES
    streams,       \* OpenLABELStreams._element_id_to_element
    stream_keys,   \* OpenLABELStreams._keys_by_label_file_id
    uri_index,     \* OpenLABELStreams._uri_to_stream_ids
    objects,       \* OpenLABELObjects._element_id_to_element
    object_keys,   \* OpenLABELObjects._keys_by_label_file_id
    call,          \* the last operation called, with its arguments
    result,        \* what that operation returned or raised
    nops           \* the number of ingest calls made so far

vars == <<streams, stream_keys, uri_index, objects, object_keys, call, result, nops>>

---------------------------------------------------------------------------
(* Bounds of the model *)

\* number of stream ingest calls in one behaviour of the stream registry
MaxStreamOps == 2
\* number of object ingest calls in one behaviour of the object registry
MaxObjectOps == 2
\* a point shape has up to MaxPoints points and local ordering labels
MaxPoints == 2
\* a skeleton has up to MaxSkeleton labels
MaxSkeleton == 3
\* 0-based frame indices of a label file's `frames` mapping are 0..MaxFrameIdx
MaxFrameIdx == 1
\* a node lists up to MaxAttrRecords {name, val} attribute records
MaxAttrRecords == 2
\* a shape collection handed to the point projection has up to MaxShapes shapes
MaxShapes == 2

---------------------------------------------------------------------------
(* Python values *)

None == <<>>
Some(x) == <<x>>
Val(o) == o[1]

EmptyDict == [k \in {} |-> None]

\* dict.update: the keys of b overwrite those of a
DictUpdate(a, b) ==
    [k \in (DOMAIN a) \cup (DOMAIN b) |-> IF k \in DOMAIN b THEN b[k] ELSE a[k]]

\* dict.get(k, None)
DictGet(d, k) == IF k \in DOMAIN d THEN Some(d[k]) ELSE None

\* dict.pop(k, None) seen from the dict: what is left
DictWithout(d, ks) == [k \in (DOMAIN d) \ ks |-> d[k]]

\* truth value of an optional string: None and "" are false
TruthyStr(o) == o # None /\ Val(o) # ""

RECURSIVE SetToSeq(_)
SetToSeq(S) ==
    IF S = {} THEN <<>>
    ELSE LET x == CHOOSE y \in S : TRUE IN <<x>> \o SetToSeq(S \ {x})

SeqToSet(s) == {s[i] : i \in DOMAIN s}

---------------------------------------------------------------------------
(* Media URIs.  sorted() orders them as strings; UriOrder lists the URIs   *)
(* of the model in that order.                                             *)

UriOrder == <<"img1.jpg", "img2.jpg">>
Uris == SeqToSet(UriOrder)
UriRank(u) == CHOOSE i \in DOMAIN UriOrder : UriOrder[i] = u

\* sorted(set(S))
RECURSIVE SortedUris(_)
SortedUris(S) ==
    IF S = {} THEN <<>>
    ELSE LET m == CHOOSE u \in S : \A v \in S : UriRank(u) <= UriRank(v)
         IN <<m>> \o SortedUris(S \ {m})

---------------------------------------------------------------------------
(* OpenLABELGroup: element ids *)

\* "%s_%s" % (label_file_id, name)
_get_element_id(label_file_id, name) == label_file_id \o <<"_">> \o name

\* element_id[: len(element_name) - 1]; a negative stop counts from the end
PySliceTo(s, stop) ==
    LET n == Len(s)
        e == IF stop < 0 THEN (IF n + stop < 0 THEN 0 ELSE n + stop)
             ELSE (IF stop > n THEN n ELSE stop)
    IN SubSeq(s, 1, e)

_get_label_file_id(element_id, element_name) ==
    PySliceTo(element_id, Len(element_name) - 1)

---------------------------------------------------------------------------
(* OpenLABELStream                                                         *)
(* A raw stream dict is [type, stream_properties, uri, rest]: the values   *)
(* of its three recognised keys (None when absent or null) and the dict of *)
(* its remaining keys.  stream_properties is an ordered list of            *)
(* <<key, kind, value>> with kind "num" (a number), "dict" (a nested list) *)
(* or "str" (anything else).                                               *)

\* str.lower() on the property keys of the model
Lower(k) ==
    CASE k = "Height" -> "height"
      [] k = "WIDTH_PX" -> "width_px"
      [] k = "Stream" -> "stream"
      [] OTHER -> k

_HEIGHT_KEYS == {"height", "height_px"}
_WIDTH_KEYS == {"width", "width_px"}

\* _check_height_width on the pair (height, width)
_check_height_width(hw, key, value) ==
    LET h == IF Lower(key) \in _HEIGHT_KEYS THEN Some(value) ELSE hw[1]
        w == IF Lower(key) \in _WIDTH_KEYS THEN Some(value) ELSE hw[2]
    IN <<h, w>>

\* _parse_properties_dict: the items in dict order, nested dicts in place
RECURSIVE _parse_properties_dict(_, _)
_parse_properties_dict(hw, d) ==
    IF d = <<>> THEN hw
    ELSE LET item == Head(d)
             hw1 == CASE item[2] = "num" -> _check_height_width(hw, item[1], item[3])
                      [] item[2] = "dict" -> _parse_properties_dict(hw, item[3])
                      [] OTHER -> hw
         IN _parse_properties_dict(hw1, Tail(d))

\* OpenLABELStream.__init__
NewStream(name, type, properties, uris, other_attrs) ==
    LET hw == IF properties # None /\ Val(properties) # <<>>
              THEN _parse_properties_dict(<<None, None>>, Val(properties))
              ELSE <<None, None>>
    IN [name |-> name,
        type |-> type,
        properties |-> properties,
        height |-> hw[1],
        width |-> hw[2],
        other_attrs |-> other_attrs,
        _uris |-> uris,
        frame_streams |-> EmptyDict]

\* _parse_stream_dict: (type, properties, uris, what is left of d)
_parse_stream_dict(d) ==
    [type |-> d.type,
     properties |-> d.stream_properties,
     uris |-> IF TruthyStr(d.uri) THEN <<Val(d.uri)>> ELSE <<>>,
     other_attrs |-> d.rest]

\* (a variant that never gives up on a type: the early return forgotten)
StreamTypeAlwaysAccepted(type) == FALSE

\* a `type` that makes update_dict and from_anno_dict give up: true and not
\* "camera" (`if _type: if _type != "camera": return`)
StreamTypeRejected(type) == TruthyStr(type) /\ type # Some("camera")

\* (a variant that appends the new URIs without removing duplicates)
MergeUrisAppend(old, new) == old \o new

\* (a variant in which the new URIs take the place of the old ones)
MergeUrisReplacing(old, new) == IF new # <<>> THEN new ELSE old

\* self._uris = sorted(set(self._uris + uris)), when uris is not empty
MergeUris(old, new) ==
    IF new # <<>> THEN SortedUris(SeqToSet(old) \cup SeqToSet(new)) ELSE old

\* update_dict without a frame number (the else branch)
StreamTopUpdate(s, d) ==
    LET p == _parse_stream_dict(d) IN
    IF StreamTypeRejected(p.type) THEN s
    ELSE LET hasp == p.properties # None /\ Val(p.properties) # <<>>
             hw == IF hasp
                   THEN _parse_properties_dict(<<s.height, s.width>>, Val(p.properties))
                   ELSE <<s.height, s.width>>
         IN [s EXCEPT
               !.type = IF TruthyStr(p.type) THEN p.type ELSE @,
               !.properties = IF hasp THEN p.properties ELSE @,
               !.height = hw[1],
               !.width = hw[2],
               !._uris = MergeUris(@, p.uris),
               !.other_attrs = DictUpdate(@, p.other_attrs)]

\* a frame number is true unless it is None or 0
TruthyNum(o) == o # None /\ Val(o) # 0

\* OpenLABELStream.update_dict(d, frame_number)
StreamUpdateDict(s, d, frame_number) ==
    IF TruthyNum(frame_number)
    THEN LET fn == Val(frame_number)
             frame_stream == IF fn \in DOMAIN s.frame_streams
                             THEN s.frame_streams[fn]
                             ELSE NewStream(s.name, None, None, <<>>, EmptyDict)
         IN [s EXCEPT !.frame_streams =
               DictUpdate(@, [k \in {fn} |-> StreamTopUpdate(frame_stream, d)])]
    ELSE StreamTopUpdate(s, d)

\* (a variant that leaves the frame overrides out)
StreamOwnUris(s) == s._uris

\* the `uris` property: own URIs and those of every frame override
StreamUris(s) ==
    SortedUris(SeqToSet(s._uris) \cup
               UNION {SeqToSet(s.frame_streams[f]._uris) : f \in DOMAIN s.frame_streams})

\* OpenLABELStream.from_anno_dict: None when a top-level dict is not a camera's
StreamFromAnnoDict(stream_name, d, frame_number) ==
    IF frame_number # None
    THEN Some(StreamUpdateDict(NewStream(stream_name, None, None, <<>>, EmptyDict),
                               d, frame_number))
    ELSE LET p == _parse_stream_dict(d) IN
         IF StreamTypeRejected(p.type) THEN None
         ELSE Some(NewStream(stream_name, p.type, p.properties, p.uris, p.other_attrs))

---------------------------------------------------------------------------
(* OpenLABELGroup / OpenLABELStreams: the stream registry *)

\* defaultdict(set)[k].add(x)
IndexAdd(index, k, x) ==
    DictUpdate(index, [j \in {k} |-> (IF k \in DOMAIN index THEN index[k] ELSE {}) \cup {x}])

\* _add_element_dict for streams: the element made or updated (None when
\* from_anno_dict made nothing)
StreamElementAfter(label_file_id, key, info_d, frame_number) ==
    LET element_id == _get_element_id(label_file_id, key) IN
    IF element_id \in DOMAIN streams
    THEN Some(StreamUpdateDict(streams[element_id], info_d, frame_number))
    ELSE StreamFromAnnoDict(key, info_d, frame_number)

\* for uri in stream.uris: self._uri_to_stream_ids[uri].add(stream_id)
RECURSIVE IndexUris(_, _, _)
IndexUris(index, uris, stream_id) ==
    IF uris = <<>> THEN index
    ELSE IndexUris(IndexAdd(index, Head(uris), stream_id), Tail(uris), stream_id)

\* _add_stream_dict (with the _add_element_dict it calls), on the registry
_add_stream_dict(label_file_id, stream_name, stream_d, frame_number) ==
    LET stream_id == _get_element_id(label_file_id, stream_name)
        element == StreamElementAfter(label_file_id, stream_name, stream_d, frame_number)
    IN IF element # None
       THEN /\ streams' = DictUpdate(streams, [k \in {stream_id} |-> Val(element)])
            /\ stream_keys' = IndexAdd(stream_keys, label_file_id, stream_name)
            /\ uri_index' = IndexUris(uri_index, StreamUris(Val(element)), stream_id)
       ELSE UNCHANGED <<streams, stream_keys, uri_index>>

\* int() of a frame index, a decimal string of one digit in the model
DecimalDigits == <<"0", "1", "2", "3", "4", "5", "6", "7", "8", "9">>

int(frame_ind) == (CHOOSE i \in DOMAIN DecimalDigits : DecimalDigits[i] = frame_ind) - 1

\* (a variant that numbers the frames from 0, as the label file does)
FrameNumberIsIndex(frame_ind) == int(frame_ind)

\* _parse_frames: frame_number = int(frame_ind) + 1
FrameNumberOf(frame_ind) == int(frame_ind) + 1

---------------------------------------------------------------------------
(* Inputs of the stream registry *)

LabelFileIds == {<<"a">>}
StreamNames == {<<"c">>, <<"c", "d">>}
FrameIdxs == {DecimalDigits[i + 1] : i \in 0 .. MaxFrameIdx}

StreamProps ==
    <<  <<"Height", "num", 480>>,
        <<"intrinsics", "dict", << <<"WIDTH_PX", "num", 640>>, <<"model", "str", "pinhole">> >> >> >>

StreamPayloads ==
    { [stream_properties |-> None, uri |-> None, rest |-> EmptyDict],
      [stream_properties |-> Some(StreamProps), uri |-> Some("img2.jpg"),
       rest |-> [description |-> "front"]],
      [stream_properties |-> None, uri |-> Some("img1.jpg"), rest |-> EmptyDict] }

StreamTypes == {None, Some("camera"), Some("lidar"), Some("")}

StreamDicts ==
    { [type |-> t, stream_properties |-> p.stream_properties, uri |-> p.uri, rest |-> p.rest] :
        t \in StreamTypes, p \in StreamPayloads }

NoCall == [op |-> "none"]
NoResult == [status |-> "none"]

Init ==
    /\ streams = EmptyDict
    /\ stream_keys = EmptyDict
    /\ uri_index = EmptyDict
    /\ objects = EmptyDict
    /\ object_keys = EmptyDict
    /\ call = NoCall
    /\ result = NoResult
    /\ nops = 0

\* parse_streams_dict on one (name, dict) of a label file's top-level streams
AddStreamTop(label_file_id, name, d) ==
    /\ nops < MaxStreamOps
    /\ _add_stream_dict(label_file_id, name, d, None)
    /\ call' = [op |-> "add_stream", label_file_id |-> label_file_id, name |-> name,
                d |-> d, frame_ind |-> None, frame_number |-> None, again |-> "no"]
    /\ result' = [status |-> "ok"]
    /\ nops' = nops + 1
    /\ UNCHANGED <<objects, object_keys>>

\* _parse_frames on one (name, dict) of the streams of frame block frame_ind
AddStreamFrame(label_file_id, name, d, frame_ind) ==
    /\ nops < MaxStreamOps
    /\ _add_stream_dict(label_file_id, name, d, Some(FrameNumberOf(frame_ind)))
    /\ call' = [op |-> "add_stream", label_file_id |-> label_file_id, name |-> name,
                d |-> d, frame_ind |-> Some(frame_ind),
                frame_number |-> Some(FrameNumberOf(frame_ind)), again |-> "no"]
    /\ result' = [status |-> "ok"]
    /\ nops' = nops + 1
    /\ UNCHANGED <<objects, object_keys>>

\* the same call once more with an equal, newly built dict (the label file
\* read again)
AddStreamAgainCopy ==
    /\ call.op = "add_stream" /\ call.again = "no"
    /\ _add_stream_dict(call.label_file_id, call.name, call.d, call.frame_number)
    /\ call' = [call EXCEPT !.again = "copy"]
    /\ UNCHANGED <<objects, object_keys, result, nops>>

NextStreams ==
    \/ \E l \in LabelFileIds, n \in StreamNames, d \in StreamDicts : AddStreamTop(l, n, d)
    \/ \E l \in LabelFileIds, n \in StreamNames, d \in StreamDicts, f \in FrameIdxs :
          AddStreamFrame(l, n, d, f)
    \/ AddStreamAgainCopy

SpecStreams == Init /\ [][NextStreams]_vars

StreamRegistry == <<streams, stream_keys, uri_index>>

---------------------------------------------------------------------------
(* AttributeParser                                                         *)
(* A raw node is seen as `flat`, the dict of its plain keys, and           *)
(* `attributes`, the {name, val} records of its "attributes" entry in      *)
(* order (all attribute types together).                                   *)

_STREAM_KEYS == {"stream", "coordinate_system"}

_ignore_keys ==
    {"frame_intervals", "val", "attributes", "object_data", "object_data_pointers",
     "bbox", "point2d", "poly2d"}

\* (a variant in which a record that names the stream is not kept as an
\* attribute: `else` in place of the second `if`)
RECURSIVE ParseAttrRecordsElse(_, _)
ParseAttrRecordsElse(acc, attrs) ==
    IF attrs = <<>> THEN acc
    ELSE LET attr == Head(attrs)
             is_stream == Lower(attr.name) \in _STREAM_KEYS
             stream == IF is_stream THEN Some(attr.val) ELSE acc.stream
             attributes == IF ~is_stream /\ Lower(attr.name) \notin _ignore_keys
                           THEN DictUpdate(acc.attributes, [k \in {attr.name} |-> attr.val])
                           ELSE acc.attributes
         IN ParseAttrRecordsElse([attributes |-> attributes, stream |-> stream], Tail(attrs))

\* the loop over the attribute records: (attributes, stream) after them
RECURSIVE ParseAttrRecords(_, _)
ParseAttrRecords(acc, attrs) ==
    IF attrs = <<>> THEN acc
    ELSE LET attr == Head(attrs)
             stream == IF Lower(attr.name) \in _STREAM_KEYS THEN Some(attr.val)
                       ELSE acc.stream
             attributes == IF Lower(attr.name) \notin _ignore_keys
                           THEN DictUpdate(acc.attributes, [k \in {attr.name} |-> attr.val])
                           ELSE acc.attributes
         IN ParseAttrRecords([attributes |-> attributes, stream |-> stream], Tail(attrs))

\* _parse_attributes(d): (attributes, stream)
_parse_attributes(flat, attrs) ==
    LET attributes == DictWithout(flat, _ignore_keys)
        stream == IF "coordinate_system" \in DOMAIN flat THEN Some(flat["coordinate_system"])
                  ELSE IF "stream" \in DOMAIN flat THEN Some(flat["stream"])
                  ELSE None
    IN ParseAttrRecords([attributes |-> attributes, stream |-> stream], attrs)

---------------------------------------------------------------------------
(* OpenLABELShape and OpenLABELShapes                                      *)
(* A raw shape dict is [val, flat, attributes]; a shape is                 *)
(* [kind, coords, attributes, stream].                                     *)

\* from_shape_dict
from_shape_dict(kind, d) ==
    LET p == _parse_attributes(d.flat, d.attributes)
    IN [kind |-> kind, coords |-> d.val, attributes |-> p.attributes, stream |-> p.stream]

\* OpenLABELShapes.__init__ with no argument
NoShapes == [shapes |-> <<>>, attributes |-> EmptyDict, stream |-> None]

\* from_object_data_list(shape_type, l, attributes=object_data): `rest` is
\* what is left of object_data once the three shape lists are popped
from_object_data_list(kind, l, rest) ==
    LET shapes == [i \in DOMAIN l |-> from_shape_dict(kind, l[i])]
        nonempty == rest.flat # EmptyDict \/ rest.attributes # <<>>
        p == _parse_attributes(rest.flat, rest.attributes)
    IN [shapes |-> shapes,
        attributes |-> IF nonempty THEN p.attributes ELSE EmptyDict,
        stream |-> IF nonempty THEN p.stream ELSE None]

\* merge_shapes
merge_shapes(self, other) ==
    [self EXCEPT !.shapes = @ \o other.shapes,
                 !.attributes = DictUpdate(@, other.attributes)]

\* OpenLABELShapes.streams
ShapesStreams(self) ==
    (IF TruthyStr(self.stream) THEN {self.stream} ELSE {})
    \cup {self.shapes[i].stream : i \in {j \in DOMAIN self.shapes : TruthyStr(self.shapes[j].stream)}}

---------------------------------------------------------------------------
(* OpenLABELObject                                                         *)
(* A raw object dict is [name, type, object_data, flat, attributes], with  *)
(* object_data None or [bbox, poly2d, point2d, flat, attributes].          *)

ShapeKeys == {"bboxes", "segmentations", "keypoints"}

\* OpenLABELObject.__init__
NewObject(key, name, type, bboxes, segmentations, keypoints, stream, other_attrs, is_frame_level) ==
    [key |-> key,
     name |-> name,
     type |-> type,
     shapes |-> [bboxes |-> bboxes, segmentations |-> segmentations, keypoints |-> keypoints],
     stream |-> stream,
     other_attrs |-> other_attrs,
     frame_objects |-> EmptyDict,
     is_frame_level |-> is_frame_level]

EmptyObjectData ==
    [bbox |-> <<>>, poly2d |-> <<>>, point2d |-> <<>>, flat |-> EmptyDict, attributes |-> <<>>]

\* _parse_object_dict
_parse_object_dict(d) ==
    LET object_data == IF d.object_data = None THEN EmptyObjectData ELSE Val(d.object_data)
        rest == [flat |-> object_data.flat, attributes |-> object_data.attributes]
        p == _parse_attributes(d.flat, d.attributes)
    IN [bboxes |-> from_object_data_list("bbox", object_data.bbox, rest),
        segmentations |-> from_object_data_list("poly2d", object_data.poly2d, rest),
        points |-> from_object_data_list("point2d", object_data.point2d, rest),
        name |-> d.name,
        type |-> d.type,
        stream |-> p.stream,
        other_attrs |-> p.attributes]

\* update_dict without a frame number (the else branch)
ObjectTopUpdate(o, d) ==
    LET p == _parse_object_dict(d) IN
    [o EXCEPT
       !.shapes = [bboxes |-> merge_shapes(@.bboxes, p.bboxes),
                   segmentations |-> merge_shapes(@.segmentations, p.segmentations),
                   keypoints |-> merge_shapes(@.keypoints, p.points)],
       !.name = IF TruthyStr(p.name) /\ ~TruthyStr(@) THEN p.name ELSE @,
       !.stream = IF TruthyStr(p.stream) /\ ~TruthyStr(@) THEN p.stream ELSE @,
       !.other_attrs = DictUpdate(@, p.other_attrs)]

\* OpenLABELObject.update_dict(d, frame_number)
ObjectUpdateDict(o, d, frame_number) ==
    IF TruthyNum(frame_number)
    THEN LET fn == Val(frame_number)
             frame_object ==
                 IF fn \in DOMAIN o.frame_objects THEN o.frame_objects[fn]
                 ELSE NewObject(o.key, None, None, NoShapes, NoShapes, NoShapes,
                                None, EmptyDict, TRUE)
         IN [o EXCEPT !.frame_objects =
               DictUpdate(@, [k \in {fn} |-> ObjectTopUpdate(frame_object, d)])]
    ELSE ObjectTopUpdate(o, d)

\* (a variant that marks an object made from a frame block as frame-level)
ObjectFromAnnoDictFrameLevel(obj_key, d, frame_number) ==
    IF frame_number # None
    THEN ObjectUpdateDict(NewObject(obj_key, None, None, NoShapes, NoShapes, NoShapes,
                                    None, EmptyDict, TRUE),
                          d, frame_number)
    ELSE LET p == _parse_object_dict(d)
         IN NewObject(obj_key, p.name, p.type, p.bboxes, p.segmentations, p.points,
                      p.stream, p.other_attrs, FALSE)

\* OpenLABELObject.from_anno_dict
ObjectFromAnnoDict(obj_key, d, frame_number) ==
    IF frame_number # None
    THEN ObjectUpdateDict(NewObject(obj_key, None, None, NoShapes, NoShapes, NoShapes,
                                    None, EmptyDict, FALSE),
                          d, frame_number)
    ELSE LET p == _parse_object_dict(d) IN
         NewObject(obj_key, p.name, p.type, p.bboxes, p.segmentations, p.points,
                   p.stream, p.other_attrs, FALSE)

\* _sample_level_streams: self.stream (None included) and the shapes' streams
_sample_level_streams(o) ==
    {o.stream} \cup UNION {ShapesStreams(o.shapes[k]) : k \in ShapeKeys}

\* the is_streamless property: bool(self._sample_level_streams)
is_streamless(o) == _sample_level_streams(o) # {}

\* keep_frames: a deep copy from which every listed frame number is popped
keep_frames(o, frame_numbers) ==
    [o EXCEPT !.frame_objects = DictWithout(@, frame_numbers)]

\* (a variant whose sample-level branch prunes the frames as well)
filter_stream_always_pruning(o, stream_info) ==
    IF stream_info.stream = None
    THEN IF o.is_frame_level \/ ~is_streamless(o)
         THEN [status |-> "ok", value |-> None, is_self |-> FALSE]
         ELSE [status |-> "ok", value |-> Some(o), is_self |-> TRUE]
    ELSE [status |-> "ok", value |-> Some(keep_frames(o, Val(stream_info.frame_numbers))),
          is_self |-> FALSE]

\* filter_stream: what it returns (None, the object itself, or a pruned copy)
filter_stream(o, stream_info) ==
    IF stream_info.stream = None
    THEN IF o.is_frame_level \/ ~is_streamless(o)
         THEN [status |-> "ok", value |-> None, is_self |-> FALSE]
         ELSE [status |-> "ok", value |-> Some(o), is_self |-> TRUE]
    ELSE IF stream_info.is_sample_level
    THEN [status |-> "ok", value |-> Some(o), is_self |-> TRUE]
    ELSE [status |-> "ok", value |-> Some(keep_frames(o, Val(stream_info.frame_numbers))),
          is_self |-> FALSE]

---------------------------------------------------------------------------
(* OpenLABELObjects: the object registry *)

\* _add_element_dict for objects (from_anno_dict always makes an object)
_add_object_dict(label_file_id, key, info_d, frame_number) ==
    LET element_id == _get_element_id(label_file_id, key)
        element == IF element_id \in DOMAIN objects
                   THEN ObjectUpdateDict(objects[element_id], info_d, frame_number)
                   ELSE ObjectFromAnnoDict(key, info_d, frame_number)
    IN /\ objects' = DictUpdate(objects, [k \in {element_id} |-> element])
       /\ object_keys' = IndexAdd(object_keys, label_file_id, key)

---------------------------------------------------------------------------
(* Inputs of the object registry *)

ObjectKeys == {<<"a">>, <<"b">>}

BoxDict(coords, attrs) == [val |-> Some(coords), flat |-> [name |-> "shape"], attributes |-> attrs]

ObjectDataOf(boxes) ==
    [bbox |-> boxes, poly2d |-> <<>>, point2d |-> <<>>, flat |-> EmptyDict, attributes |-> <<>>]

CarDict ==
    [name |-> Some("car1"), type |-> Some("car"),
     object_data |-> Some(ObjectDataOf(<< BoxDict(<<320, 240, 64, 48>>, <<>>) >>)),
     flat |-> EmptyDict, attributes |-> <<>>]

BareDict ==
    [name |-> None, type |-> None, object_data |-> None,
     flat |-> [occluded |-> "no"], attributes |-> <<>>]

StreamRefDict ==
    [name |-> None, type |-> Some("person"), object_data |-> None,
     flat |-> [coordinate_system |-> "cam"], attributes |-> <<>>]

ShapeStreamRefDict ==
    [name |-> None, type |-> Some("car"),
     object_data |-> Some(ObjectDataOf(
        << BoxDict(<<100, 100, 20, 10>>, << [name |-> "stream", val |-> "cam"] >>) >>)),
     flat |-> EmptyDict, attributes |-> <<>>]

ObjectDicts == {CarDict, BareDict, StreamRefDict, ShapeStreamRefDict}

\* an object whose only bbox has three coordinates
MalformedDict ==
    [name |-> None, type |-> Some("car"),
     object_data |-> Some(ObjectDataOf(<< BoxDict(<<320, 240, 64>>, <<>>) >>)),
     flat |-> EmptyDict, attributes |-> <<>>]

FrameNumbers == {FrameNumberOf(i) : i \in FrameIdxs}

\* the frame number lists of a stream info: none, one frame, every frame
FrameNumberLists == {{}} \cup {{f} : f \in FrameNumbers} \cup {FrameNumbers}

\* OpenLABELStreamInfo as get_stream_info builds it: with a stream and a list
\* of frame numbers, or with neither
StreamInfoInputs ==
    { [stream |-> Some("stream"), frame_numbers |-> Some(fs), label_file_id |-> l,
       is_sample_level |-> b] : fs \in FrameNumberLists, l \in LabelFileIds, b \in BOOLEAN }
    \cup
    { [stream |-> None, frame_numbers |-> None, label_file_id |-> l, is_sample_level |-> b] :
        l \in LabelFileIds, b \in BOOLEAN }

\* parse_objects_dict on one (key, dict) of a label file's top-level objects
AddObjectTop(label_file_id, key, d) ==
    /\ nops < MaxObjectOps
    /\ _add_object_dict(label_file_id, key, d, None)
    /\ call' = [op |-> "add_object", label_file_id |-> label_file_id, key |-> key,
                d |-> d, frame_ind |-> None, frame_number |-> None]
    /\ result' = [status |-> "ok"]
    /\ nops' = nops + 1
    /\ UNCHANGED <<streams, stream_keys, uri_index>>

\* _parse_frames on one (key, dict) of the objects of frame block frame_ind
AddObjectFrame(label_file_id, key, d, frame_ind) ==
    /\ nops < MaxObjectOps
    /\ _add_object_dict(label_file_id, key, d, Some(FrameNumberOf(frame_ind)))
    /\ call' = [op |-> "add_object", label_file_id |-> label_file_id, key |-> key,
                d |-> d, frame_ind |-> Some(frame_ind),
                frame_number |-> Some(FrameNumberOf(frame_ind))]
    /\ result' = [status |-> "ok"]
    /\ nops' = nops + 1
    /\ UNCHANGED <<streams, stream_keys, uri_index>>

\* filter_stream called on a stored object
FilterStoredObject(obj_id, stream_info) ==
    /\ obj_id \in DOMAIN objects
    /\ call' = [op |-> "filter_stream", obj |-> objects[obj_id], stream_info |-> stream_info]
    /\ result' = filter_stream(objects[obj_id], stream_info)
    /\ UNCHANGED <<streams, stream_keys, uri_index, objects, object_keys, nops>>

\* filter_stream called on a frame override of a stored object
FilterFrameObject(obj_id, frame_number, stream_info) ==
    /\ obj_id \in DOMAIN objects
    /\ frame_number \in DOMAIN objects[obj_id].frame_objects
    /\ call' = [op |-> "filter_stream", obj |-> objects[obj_id].frame_objects[frame_number],
                stream_info |-> stream_info]
    /\ result' = filter_stream(objects[obj_id].frame_objects[frame_number], stream_info)
    /\ UNCHANGED <<streams, stream_keys, uri_index, objects, object_keys, nops>>

ObjectIds == {_get_element_id(l, k) : l \in LabelFileIds, k \in ObjectKeys}

NextObjects ==
    \/ \E l \in LabelFileIds, k \in ObjectKeys, d \in ObjectDicts : AddObjectTop(l, k, d)
    \/ \E l \in LabelFileIds, k \in ObjectKeys, d \in ObjectDicts, f \in FrameIdxs :
          AddObjectFrame(l, k, d, f)
    \/ \E i \in ObjectIds, s \in StreamInfoInputs : FilterStoredObject(i, s)
    \/ \E i \in ObjectIds, f \in FrameNumbers, s \in StreamInfoInputs :
          FilterFrameObject(i, f, s)

SpecObjects == Init /\ [][NextObjects]_vars

---------------------------------------------------------------------------
(* Properties of the stream registry (SpecStreams) *)

\* the dict a call handed to _add_stream_dict
PassedStreamDict(c) == c.d

CallStreamId(c) == _get_element_id(c.label_file_id, c.name)

\* the fields of a stream that a top-level update may write
StreamTopFields(s) == <<s.type, s.properties, s.height, s.width, s._uris, s.other_attrs>>

\* a step that is a top-level update of an existing stream whose type is unset
TopUpdateOfUntypedStream ==
    /\ call'.op = "add_stream"
    /\ call'.frame_number = None
    /\ CallStreamId(call') \in DOMAIN streams
    /\ streams[CallStreamId(call')].type = None

---------------------------------------------------------------------------
(* Properties of filter_stream (SpecObjects) *)

\* the object has no stream reference, neither its own nor on its shapes
NoStreamReference(o) == \A s \in _sample_level_streams(o) : ~TruthyStr(s)

\* C5 as stated: filtering an object against a stream info that has a stream
\* and is not sample-level returns a copy whose frame overrides are exactly
\* the object's overrides at the stream info's frame numbers.
C5_KeepsListedFrames ==
    (/\ call.op = "filter_stream"
     /\ call.stream_info.stream # None
     /\ ~call.stream_info.is_sample_level)
    => (/\ result.status = "ok"
        /\ result.value # None
        /\ DOMAIN Val(result.value).frame_objects
             = (DOMAIN call.obj.frame_objects) \cap Val(call.stream_info.frame_numbers)
        /\ \A f \in DOMAIN Val(result.value).frame_objects :
             Val(result.value).frame_objects[f] = call.obj.frame_objects[f])

\* C6: filter_stream returns the object itself, with all of its frame
\* overrides, when (a) the stream info is streamless and the object is
\* top-level with no stream reference, or (b) the stream info has a stream
\* and is sample-level.
C6_SampleLevelPassthrough ==
    (/\ call.op = "filter_stream"
     /\ \/ (/\ call.stream_info.stream = None
            /\ ~call.obj.is_frame_level
            /\ NoStreamReference(call.obj))
        \/ (/\ call.stream_info.stream # None
            /\ call.stream_info.is_sample_level))
    => (/\ result.status = "ok"
        /\ result.value = Some(call.obj)
        /\ result.is_self)

\* C6 witness: a top-level object with no stream reference and two frame
\* overrides went through a streamless stream info and came back whole.
C6_Witness ==
    /\ call.op = "filter_stream"
    /\ call.stream_info.stream = None
    /\ ~call.obj.is_frame_level
    /\ NoStreamReference(call.obj)
    /\ Cardinality(DOMAIN call.obj.frame_objects) >= 2
    /\ result.value = Some(call.obj)

---------------------------------------------------------------------------
(* Shapes to labels                                                        *)
(* A relative coordinate x / width is the fraction <<x, width>>, compared  *)
(* by cross-multiplication; float("nan") is <<0, 0>>.  The `attributes`    *)
(* argument of to_label is None or <<dict>>.                               *)

Frac(n, d) == <<n, d>>
FracEq(a, b) == a[1] * b[2] = b[1] * a[2]
NaN == Frac(0, 0)

\* _pairwise: zip(y, y) over one iterator, an odd last element dropped
_pairwise(x) == [i \in 1 .. (Len(x) \div 2) |-> <<x[2 * i - 1], x[2 * i]>>]

\* _attrs = deepcopy(attributes).update(self.attributes): dict.update returns
\* None, and None has no update
DeepcopyUpdate(attributes, own) ==
    IF attributes = None THEN [status |-> "AttributeError"]
    ELSE [status |-> "ok", value |-> None]

\* fol.Detection / fol.Polyline / fol.Keypoint (label=..., <fields>, **kwargs):
\* ** needs a mapping
MakeLabel(cls, label, fields, kwargs) ==
    IF kwargs = None THEN [status |-> "TypeError"]
    ELSE [status |-> "ok", cls |-> cls, label |-> label, fields |-> fields,
          attributes |-> Val(kwargs)]

\* [x / width, y / height, w / width, h / height] with x = cx - w / 2
BoundingBox(coords, width, height) ==
    << Frac(2 * coords[1] - coords[3], 2 * width),
       Frac(2 * coords[2] - coords[4], 2 * height),
       Frac(coords[3], width),
       Frac(coords[4], height) >>

\* OpenLABELBBox.to_label
BBox_to_label(self, label, attributes, width, height) ==
    IF self.coords = None THEN [status |-> "TypeError"]
    ELSE IF Len(Val(self.coords)) # 4 THEN [status |-> "ValueError"]
    ELSE IF width = 0 \/ height = 0 THEN [status |-> "ZeroDivisionError"]
    ELSE LET _attrs == DeepcopyUpdate(attributes, self.attributes) IN
         IF _attrs.status # "ok" THEN [status |-> _attrs.status]
         ELSE MakeLabel("Detection", label,
                        [bounding_box |-> BoundingBox(Val(self.coords), width, height)],
                        _attrs.value)

\* [(x / width, y / height) for x, y in _pairwise(coords)]
RelPoints(coords, width, height) ==
    LET pairs == _pairwise(coords)
    IN [i \in DOMAIN pairs |-> <<Frac(pairs[i][1], width), Frac(pairs[i][2], height)>>]

\* OpenLABELPoly2D.to_label
Poly2D_to_label(self, label, attributes, width, height) ==
    IF self.coords = None THEN [status |-> "TypeError"]
    ELSE IF Len(Val(self.coords)) >= 2 /\ (width = 0 \/ height = 0)
    THEN [status |-> "ZeroDivisionError"]
    ELSE LET _attrs == DeepcopyUpdate(attributes, self.attributes) IN
         IF _attrs.status # "ok" THEN [status |-> _attrs.status]
         ELSE IF _attrs.value = None THEN [status |-> "AttributeError"]
         ELSE LET a == Val(_attrs.value)
                  filled == IF "filled" \in DOMAIN a THEN a["filled"]
                            ELSE IF "is_hole" \in DOMAIN a THEN ~a["is_hole"]
                            ELSE FALSE
                  closed == IF "closed" \in DOMAIN a THEN a["closed"] ELSE TRUE
              IN MakeLabel("Polyline", label,
                           [points |-> <<RelPoints(Val(self.coords), width, height)>>,
                            filled |-> filled, closed |-> closed],
                           Some(DictWithout(a, {"filled", "closed", "label"})))

\* An attribute value handed to _sort_by_skeleton is <<"list", l>> or
\* <<"scalar", v>>; the elements of a list are None or <<v>>.
IsAlignedList(v, points) == v[1] = "list" /\ Len(v[2]) = Len(points)

\* label_order.index(label)
IndexOf(label_order, label) ==
    CHOOSE i \in DOMAIN label_order :
        /\ label_order[i] = label
        /\ \A j \in 1 .. (i - 1) : label_order[j] # label

\* (a variant that leaves out the skeleton labels the shape does not have)
_sort_by_skeleton_no_padding(points, attrs, label_order, skeleton_order) ==
    IF Len(points) # Len(label_order) THEN [points |-> points, attrs |-> attrs]
    ELSE LET present == SelectSeq(skeleton_order, LAMBDA l : l \in SeqToSet(label_order))
             at(i) == IndexOf(label_order, present[i])
         IN [points |-> [i \in DOMAIN present |-> points[at(i)]],
             attrs |-> [k \in DOMAIN attrs |->
                          IF IsAlignedList(attrs[k], points)
                          THEN <<"list", [i \in DOMAIN present |-> attrs[k][2][at(i)]]>>
                          ELSE attrs[k]]]

\* OpenLABELPoint._sort_by_skeleton (skeleton_order a list)
_sort_by_skeleton(points, attrs, label_order, skeleton_order) ==
    IF Len(points) # Len(label_order) THEN [points |-> points, attrs |-> attrs]
    ELSE LET has(i) == skeleton_order[i] \in SeqToSet(label_order)
             at(i) == IndexOf(label_order, skeleton_order[i])
         IN [points |-> [i \in DOMAIN skeleton_order |->
                           IF has(i) THEN points[at(i)] ELSE <<NaN, NaN>>],
             attrs |-> [k \in DOMAIN attrs |->
                          IF IsAlignedList(attrs[k], points)
                          THEN <<"list", [i \in DOMAIN skeleton_order |->
                                            IF has(i) THEN attrs[k][2][at(i)] ELSE None]>>
                          ELSE attrs[k]]]

\* OpenLABELPoint.to_label; skeleton is None or <<list>>, skeleton_key is
\* None or <<key>>
Point_to_label(self, label, attributes, width, height, skeleton, skeleton_key) ==
    IF self.coords = None THEN [status |-> "TypeError"]
    ELSE IF Len(Val(self.coords)) >= 2 /\ (width = 0 \/ height = 0)
    THEN [status |-> "ZeroDivisionError"]
    ELSE LET rel_points == RelPoints(Val(self.coords), width, height)
             _attrs == DeepcopyUpdate(attributes, self.attributes)
             wanted == /\ skeleton # None /\ Val(skeleton) # <<>>
                       /\ TruthyStr(skeleton_key)
         IN IF _attrs.status # "ok" THEN [status |-> _attrs.status]
            ELSE IF wanted /\ _attrs.value = None THEN [status |-> "TypeError"]
            ELSE IF wanted /\ Val(skeleton_key) \in DOMAIN Val(_attrs.value)
            THEN LET a == Val(_attrs.value)
                     sorted == _sort_by_skeleton(rel_points,
                                                 DictWithout(a, {Val(skeleton_key)}),
                                                 a[Val(skeleton_key)][2], Val(skeleton))
                 IN MakeLabel("Keypoint", label, [points |-> sorted.points],
                              Some(sorted.attrs))
            ELSE MakeLabel("Keypoint", label, [points |-> rel_points], _attrs.value)

---------------------------------------------------------------------------
(* Inputs of the shape projections *)

SeqsUpTo(S, n) == UNION {[1 .. k -> S] : k \in 0 .. n}

ShapeOf(kind, coords, attributes) ==
    [kind |-> kind, coords |-> coords, attributes |-> attributes, stream |-> None]

BBoxInputs ==
    { ShapeOf("bbox", c, a) :
        c \in {None, Some(<<50, 50, 20, 10>>), Some(<<320, 240, 64, 48>>), Some(<<1, 2, 3>>)},
        a \in {EmptyDict, [name |-> "shape"]} }

Poly2DInputs ==
    { ShapeOf("poly2d", c, a) :
        c \in {Some(<<0, 0, 10, 0, 10, 10>>), Some(<<0, 0, 10>>), Some(<<>>)},
        a \in {EmptyDict, [is_hole |-> TRUE], [is_hole |-> FALSE],
               [filled |-> FALSE, closed |-> FALSE]} }

PointInputs ==
    { ShapeOf("point2d", c, a) :
        c \in {Some(<<1, 1, 2, 2>>), Some(<<5, 5>>)},
        a \in {EmptyDict, [order |-> <<"list", <<"left", "right">> >>]} }

InheritedAttrs == {None, Some(EmptyDict), Some([name |-> "car1", OpenLABEL_id |-> "0"])}

FrameSizes == {<<100, 100>>, <<640, 480>>, <<10, 10>>}

Labels == {None, Some("car")}

SkeletonLabels == {"left", "right", "center"}
OrderLabels == {"left", "right"}

\* the relative points handed to _sort_by_skeleton: point i is (i/10, i/10)
PointsOfLen(n) == [i \in 1 .. n |-> <<Frac(i, 10), Frac(i, 10)>>]

\* attributes for n points: none, or a list aligned to the points, a list
\* one longer and a scalar
AttrsForPoints(n) ==
    { EmptyDict,
      [visible |-> <<"list", [i \in 1 .. n |-> Some(i)]>>,
       spare |-> <<"list", [i \in 1 .. (n + 1) |-> Some(i)]>>,
       side |-> <<"scalar", "l">>] }

BBoxToLabel(self, label, attributes, size) ==
    /\ call = NoCall
    /\ call' = [op |-> "BBox.to_label", self |-> self, label |-> label,
                attributes |-> attributes, width |-> size[1], height |-> size[2]]
    /\ result' = BBox_to_label(self, label, attributes, size[1], size[2])
    /\ UNCHANGED <<streams, stream_keys, uri_index, objects, object_keys, nops>>

Poly2DToLabel(self, label, attributes, size) ==
    /\ call = NoCall
    /\ call' = [op |-> "Poly2D.to_label", self |-> self, label |-> label,
                attributes |-> attributes, width |-> size[1], height |-> size[2]]
    /\ result' = Poly2D_to_label(self, label, attributes, size[1], size[2])
    /\ UNCHANGED <<streams, stream_keys, uri_index, objects, object_keys, nops>>

PointToLabel(self, label, attributes, size, skeleton, skeleton_key) ==
    /\ call = NoCall
    /\ call' = [op |-> "Point.to_label", self |-> self, label |-> label,
                attributes |-> attributes, width |-> size[1], height |-> size[2],
                skeleton |-> skeleton, skeleton_key |-> skeleton_key]
    /\ result' = Point_to_label(self, label, attributes, size[1], size[2],
                                skeleton, skeleton_key)
    /\ UNCHANGED <<streams, stream_keys, uri_index, objects, object_keys, nops>>

SortBySkeleton(points, attrs, label_order, skeleton_order) ==
    /\ call = NoCall
    /\ call' = [op |-> "_sort_by_skeleton", points |-> points, attrs |-> attrs,
                label_order |-> label_order, skeleton_order |-> skeleton_order]
    /\ result' = _sort_by_skeleton(points, attrs, label_order, skeleton_order)
    /\ UNCHANGED <<streams, stream_keys, uri_index, objects, object_keys, nops>>

NextShapes ==
    \/ \E s \in BBoxInputs, l \in Labels, a \in InheritedAttrs, z \in FrameSizes :
          BBoxToLabel(s, l, a, z)
    \/ \E s \in Poly2DInputs, l \in Labels, a \in InheritedAttrs, z \in FrameSizes :
          Poly2DToLabel(s, l, a, z)
    \/ \E s \in PointInputs, l \in Labels, a \in InheritedAttrs, z \in FrameSizes,
          k \in {None, Some(<<"left", "right", "center">>)}, key \in {None, Some("order")} :
          PointToLabel(s, l, a, z, k, key)
    \/ \E n \in 0 .. MaxPoints, o \in SeqsUpTo(OrderLabels, MaxPoints),
          k \in SeqsUpTo(SkeletonLabels, MaxSkeleton) :
          \E a \in AttrsForPoints(n) : SortBySkeleton(PointsOfLen(n), a, o, k)

SpecShapes == Init /\ [][NextShapes]_vars

---------------------------------------------------------------------------
(* Properties of the shape projections (SpecShapes) *)

\* C2 as stated: for a bbox with exactly 4 coordinates (cx, cy, w, h) and a
\* frame size (W, H) with W, H > 0, to_label returns a Detection whose
\* bounding_box is [(cx - w/2)/W, (cy - h/2)/H, w/W, h/H]; (50, 50, 20, 10)
\* on (100, 100) gives [0.40, 0.45, 0.20, 0.10].
C2_BBoxNormalized ==
    (/\ call.op = "BBox.to_label"
     /\ call.self.coords # None
     /\ Len(Val(call.self.coords)) = 4
     /\ call.attributes # None
     /\ call.width > 0 /\ call.height > 0)
    => LET c == Val(call.self.coords) IN
       /\ result.status = "ok"
       /\ result.cls = "Detection"
       /\ FracEq(result.fields.bounding_box[1], Frac(2 * c[1] - c[3], 2 * call.width))
       /\ FracEq(result.fields.bounding_box[2], Frac(2 * c[2] - c[4], 2 * call.height))
       /\ FracEq(result.fields.bounding_box[3], Frac(c[3], call.width))
       /\ FracEq(result.fields.bounding_box[4], Frac(c[4], call.height))
       /\ (c = <<50, 50, 20, 10>> /\ call.width = 100 /\ call.height = 100)
            => /\ FracEq(result.fields.bounding_box[1], Frac(40, 100))
               /\ FracEq(result.fields.bounding_box[2], Frac(45, 100))
               /\ FracEq(result.fields.bounding_box[3], Frac(20, 100))
               /\ FracEq(result.fields.bounding_box[4], Frac(10, 100))

\* the attributes a shape's label is to carry: the inherited ones with the
\* shape's own over them
MergedAttributes(c) == DictUpdate(Val(c.attributes), c.self.attributes)

\* C3 as stated: Polygon2D.to_label pairs the flat coordinate list into one
\* ring of relative points (xi/W, yi/H) in input order; with none of
\* `filled`, `is_hole`, `closed` among the merged attributes the Polyline has
\* filled = True and closed = True; with `is_hole` present and `filled`
\* absent, filled is the inverse of `is_hole`.
C3_PolylineDefaults ==
    (/\ call.op = "Poly2D.to_label"
     /\ call.attributes # None
     /\ call.width > 0 /\ call.height > 0)
    => LET c == Val(call.self.coords)
           m == MergedAttributes(call)
       IN /\ result.status = "ok"
          /\ result.cls = "Polyline"
          /\ Len(result.fields.points) = 1
          /\ Len(result.fields.points[1]) = Len(c) \div 2
          /\ \A i \in 1 .. (Len(c) \div 2) :
               /\ FracEq(result.fields.points[1][i][1], Frac(c[2 * i - 1], call.width))
               /\ FracEq(result.fields.points[1][i][2], Frac(c[2 * i], call.height))
          /\ ({"filled", "is_hole", "closed"} \cap DOMAIN m = {})
               => (result.fields.filled /\ result.fields.closed)
          /\ ("is_hole" \in DOMAIN m /\ "filled" \notin DOMAIN m)
               => (result.fields.filled = ~m["is_hole"])

\* C4: when the number of points equals the number of local ordering
\* labels, the result of _sort_by_skeleton has one point per skeleton label,
\* in skeleton order: position i holds the point of the first local label
\* equal to skeleton[i] if there is one, else (NaN, NaN); every attribute
\* list as long as the points is reordered the same way, with None at the
\* placeholder positions, and every other attribute is kept.  When the two
\* numbers differ, points and attributes are returned unchanged.
C4_SkeletonOrder ==
    (call.op = "_sort_by_skeleton")
    => LET pts == call.points
           lo == call.label_order
           sk == call.skeleton_order
           Pos(i) == {j \in DOMAIN lo : lo[j] = sk[i] /\ \A j2 \in 1 .. (j - 1) : lo[j2] # sk[i]}
       IN IF Len(pts) = Len(lo)
          THEN /\ Len(result.points) = Len(sk)
               /\ \A i \in DOMAIN sk :
                    IF Pos(i) = {} THEN result.points[i] = <<NaN, NaN>>
                    ELSE \A j \in Pos(i) : result.points[i] = pts[j]
               /\ DOMAIN result.attrs = DOMAIN call.attrs
               /\ \A k \in DOMAIN call.attrs :
                    IF call.attrs[k][1] = "list" /\ Len(call.attrs[k][2]) = Len(pts)
                    THEN /\ result.attrs[k][1] = "list"
                         /\ Len(result.attrs[k][2]) = Len(sk)
                         /\ \A i \in DOMAIN sk :
                              IF Pos(i) = {} THEN result.attrs[k][2][i] = None
                              ELSE \A j \in Pos(i) : result.attrs[k][2][i] = call.attrs[k][2][j]
                    ELSE result.attrs[k] = call.attrs[k]
          ELSE result.points = pts /\ result.attrs = call.attrs

\* C4 witness: two points labelled left, right with an aligned attribute
\* list, sorted by the skeleton left, right, center: three points, the third
\* (NaN, NaN), and None third in the attribute list.
C4_Witness ==
    /\ call.op = "_sort_by_skeleton"
    /\ call.label_order = <<"left", "right">>
    /\ call.skeleton_order = <<"left", "right", "center">>
    /\ Len(call.points) = 2
    /\ "visible" \in DOMAIN call.attrs
    /\ Len(result.points) = 3
    /\ result.points[1] = call.points[1]
    /\ result.points[3] = <<NaN, NaN>>
    /\ result.attrs["visible"][2] = <<Some(1), Some(2), None>>

---------------------------------------------------------------------------
(* Resolution: OpenLABELStream.get_frame_numbers, get_stream_info and      *)
(* get_objects.  An OpenLABELStreamInfo is                                 *)
(* [stream, frame_numbers, label_file_id, is_sample_level] with stream     *)
(* None or <<stream>> and frame_numbers None or <<set of frame numbers>>.  *)
(* Python iterates a set in an order the program does not control: the     *)
(* operators below take that order as an argument or return every outcome. *)

\* the sequences that enumerate the set S once each
Orders(S) == {s \in [1 .. Cardinality(S) -> S] : SeqToSet(s) = S}

\* (a variant that answers with every frame override, whatever the URI)
get_frame_numbers_of_all_frames(s, uri) ==
    <<DOMAIN s.frame_streams, uri \in SeqToSet(s._uris)>>

\* OpenLABELStream.get_frame_numbers(uri): (frame_numbers, is_sample_level)
get_frame_numbers(s, uri) ==
    IF uri \in SeqToSet(s._uris)
    THEN <<DOMAIN s.frame_streams, TRUE>>
    ELSE <<{f \in DOMAIN s.frame_streams : uri \in SeqToSet(StreamUris(s.frame_streams[f]))},
           FALSE>>

\* get_stream_info(uri), the ids of self._uri_to_stream_ids[uri] iterated in
\* the order stream_ids; the else branch reads label_file_id before any
\* assignment to it
get_stream_info(uri, stream_ids) ==
    IF uri \in DOMAIN uri_index
    THEN [status |-> "ok",
          infos |-> [i \in DOMAIN stream_ids |->
                       LET stream == streams[stream_ids[i]]
                           fn == get_frame_numbers(stream, uri)
                       IN [stream |-> Some(stream),
                           frame_numbers |-> Some(fn[1]),
                           label_file_id |-> _get_label_file_id(stream_ids[i], stream.name),
                           is_sample_level |-> fn[2]]]]
    ELSE [status |-> "UnboundLocalError"]

\* the orders in which get_stream_info may meet the stream ids of uri
StreamIdOrders(uri) ==
    IF uri \in DOMAIN uri_index THEN Orders(uri_index[uri]) ELSE {<<>>}

\* self._element_id_to_element[obj_id] = obj on the insertion-ordered dict
\* of a sub-registry, kept as a sequence of <<obj_id, obj>>
OrderedPut(acc, obj_id, obj) ==
    IF \E i \in DOMAIN acc : acc[i][1] = obj_id
    THEN [i \in DOMAIN acc |-> IF acc[i][1] = obj_id THEN <<obj_id, obj>> ELSE acc[i]]
    ELSE Append(acc, <<obj_id, obj>>)

\* the inner loop of get_objects over obj_keys, in the order given:
\* _get_filtered_object looks the object up under "<obj_key>_<label_file_id>"
\* and add_object files it under the same id
RECURSIVE AddFilteredObjects(_, _, _)
AddFilteredObjects(obj_keys, stream_info, acc) ==
    IF obj_keys = <<>> THEN [status |-> "ok", value |-> acc]
    ELSE LET obj_key == Head(obj_keys)
             obj_id == _get_element_id(obj_key, stream_info.label_file_id)
         IN IF obj_id \notin DOMAIN objects THEN [status |-> "KeyError"]
            ELSE LET obj == filter_stream(objects[obj_id], stream_info)
                 IN AddFilteredObjects(Tail(obj_keys), stream_info,
                                       IF obj.value # None
                                       THEN OrderedPut(acc, obj_id, Val(obj.value))
                                       ELSE acc)

\* get_objects(stream_infos): every outcome, each with the
\* _keys_by_label_file_id it leaves behind; reading the defaultdict at a
\* label_file_id it does not hold inserts an empty set there
RECURSIVE get_objects(_, _, _)
get_objects(infos, acc, keys_by_label_file_id) ==
    IF infos = <<>>
    THEN {[status |-> "ok", value |-> acc, object_keys |-> keys_by_label_file_id]}
    ELSE LET stream_info == Head(infos)
             label_file_id == stream_info.label_file_id
             keys1 == IF label_file_id \in DOMAIN keys_by_label_file_id
                      THEN keys_by_label_file_id
                      ELSE DictUpdate(keys_by_label_file_id, [k \in {label_file_id} |-> {}])
         IN UNION { LET r == AddFilteredObjects(obj_keys, stream_info, acc)
                    IN IF r.status = "ok"
                       THEN get_objects(Tail(infos), r.value, keys1)
                       ELSE {[status |-> r.status, object_keys |-> keys1]}
                    : obj_keys \in Orders(keys1[label_file_id]) }

---------------------------------------------------------------------------
(* Projection of objects to labels: OpenLABELShapes.to_labels,             *)
(* OpenLABELObject._to_labels and OpenLABELLabelConverter.to_labels        *)

\* the attribute keys of the model that are two characters long: the only
\* ones `for k, v in shape.attributes` can unpack
TwoCharKeys == {"id"}

\* a loop that skips the shapes whose conversion raises
LabelsInTurnSkipping(labels) ==
    [status |-> "ok", value |-> SelectSeq(labels, LAMBDA l : l.status = "ok")]

\* a loop that appends the label of each shape in turn: the list of labels,
\* or the exception of the first shape that raises
LabelsInTurn(labels) ==
    LET bad == {i \in DOMAIN labels : labels[i].status # "ok"}
    IN IF bad = {} THEN [status |-> "ok", value |-> labels]
       ELSE [status |-> labels[CHOOSE i \in bad : \A j \in bad : i <= j].status]

\* _to_individual_labels: the attributes handed to the shapes are the value
\* of dict.update, None
_to_individual_labels(self, label, attributes, width, height) ==
    LET _attrs == DeepcopyUpdate(Some(attributes), self.attributes)
        to_label(shape) ==
            CASE shape.kind = "bbox" -> BBox_to_label(shape, label, _attrs.value, width, height)
              [] shape.kind = "poly2d" -> Poly2D_to_label(shape, label, _attrs.value, width, height)
              [] OTHER -> Point_to_label(shape, label, _attrs.value, width, height, None, None)
    IN LabelsInTurn([i \in DOMAIN self.shapes |-> to_label(self.shapes[i])])

\* _to_point_labels: the coordinate lists of the shapes are gathered into
\* one list of lists, which _pairwise pairs list with list
_to_point_labels(self, label, attributes, width, height, skeleton, skeleton_key) ==
    IF self.shapes = <<>> THEN [status |-> "ok", value |-> <<>>]
    ELSE IF \E i \in DOMAIN self.shapes : self.shapes[i].kind # "point2d"
    THEN [status |-> "ValueError"]
    ELSE IF \E i \in DOMAIN self.shapes : ~(DOMAIN self.shapes[i].attributes \subseteq TwoCharKeys)
    THEN [status |-> "ValueError"]
    ELSE IF Len(self.shapes) >= 2 THEN [status |-> "TypeError"]
    ELSE LabelsInTurn(<< Point_to_label(
                     [kind |-> "point2d", coords |-> Some(<<>>), attributes |-> EmptyDict,
                      stream |-> self.shapes[1].stream],
                     label, Some(attributes), width, height, skeleton, skeleton_key) >>)

\* OpenLABELShapes.to_labels
ShapesToLabels(self, label, attributes, width, height, is_points, skeleton, skeleton_key) ==
    IF is_points
    THEN _to_point_labels(self, label, attributes, width, height, skeleton, skeleton_key)
    ELSE _to_individual_labels(self, label, attributes, width, height)

\* _get_object_attributes(parent): parent is None or <<object>>
_get_object_attributes(o, parent) ==
    LET own(x) == DictUpdate(
                     DictUpdate(IF x.name # None THEN [k \in {"name"} |-> Val(x.name)]
                                ELSE EmptyDict,
                                [k \in {"OpenLABEL_id"} |-> x.key]),
                     x.other_attrs)
    IN IF parent # None THEN DictUpdate(own(Val(parent)), own(o)) ELSE own(o)

\* _get_label_attrs: (label, attributes, width, height)
_get_label_attrs(o, frame_size, parent) ==
    [label |-> IF o.type = None /\ parent # None THEN Val(parent).type ELSE o.type,
     attributes |-> _get_object_attributes(o, parent),
     width |-> frame_size[1],
     height |-> frame_size[2]]

\* the labels of the object's own shapes, frame_labels[None] of _to_labels
OwnLabels(o, frame_size, shape_type, parent, is_points, skeleton, skeleton_key) ==
    LET la == _get_label_attrs(o, frame_size, parent)
    IN ShapesToLabels(o.shapes[shape_type], la.label, la.attributes, la.width, la.height,
                      is_points, skeleton, skeleton_key)

\* frame_labels of _to_labels from the labels of the object itself (under
\* None) and of each frame override (under <<frame number>>): every
\* outcome.  The model does not keep the insertion order of frame_objects,
\* so when several frame overrides fail any of them may be the first.
FrameLabels(own) ==
    LET bad == {k \in DOMAIN own : own[k].status # "ok"}
    IN IF None \in bad THEN {[status |-> own[None].status]}
       ELSE IF bad # {} THEN {[status |-> own[k].status] : k \in bad}
       ELSE {[status |-> "ok", value |-> [k \in DOMAIN own |-> own[k].value]]}

\* _to_labels of a top-level object
_to_labels(o, frame_size, shape_type, is_points, skeleton, skeleton_key) ==
    FrameLabels([k \in {None} \cup {Some(f) : f \in DOMAIN o.frame_objects} |->
                   OwnLabels(IF k = None THEN o ELSE o.frame_objects[Val(k)],
                             frame_size, shape_type,
                             IF k = None THEN None ELSE Some(o),
                             is_points, skeleton, skeleton_key)])

\* to_detections, to_keypoints: _to_labels is called and its value dropped
to_detections(o, frame_size) ==
    {IF r.status = "ok" THEN [status |-> "ok", value |-> None] ELSE r :
        r \in _to_labels(o, frame_size, "bboxes", FALSE, None, None)}

to_keypoints(o, frame_size, skeleton, skeleton_key) ==
    {IF r.status = "ok" THEN [status |-> "ok", value |-> None] ELSE r :
        r \in _to_labels(o, frame_size, "keypoints", TRUE, skeleton, skeleton_key)}

\* `for frame_number, labels in <r>`: None cannot be iterated
IterateLabels(r) ==
    IF r.status # "ok" THEN r.status
    ELSE IF r.value = None THEN "TypeError"
    ELSE "ok"

\* the statuses of one step followed by another: the second runs only when
\* the first does not raise
StatusThen(first, rest) ==
    (first \ {"ok"}) \cup (IF "ok" \in first THEN rest ELSE {})

\* the body of the converter's loop for one object: the outcomes of its
\* three branches in order; OpenLABELObject has no to_segmentations
ConvertObject(o, frame_size, label_types, skeleton, skeleton_key) ==
    LET dets == IF "detections" \in label_types
                THEN {IterateLabels(r) : r \in to_detections(o, frame_size)}
                ELSE {"ok"}
        kps == IF "keypoints" \in label_types
               THEN {IterateLabels(r) : r \in to_keypoints(o, frame_size, skeleton, skeleton_key)}
               ELSE {"ok"}
        segs == IF "segmentations" \in label_types THEN {"AttributeError"} ELSE {"ok"}
    IN StatusThen(dets, StatusThen(kps, segs))

\* OpenLABELStreamInfo.get_stream_attributes
InfoStreamAttributes(info) ==
    IF info.stream # None THEN Val(info.stream).other_attrs ELSE EmptyDict

\* OpenLABELStreamInfos.get_stream_attributes(frame_number)
RECURSIVE get_stream_attributes(_, _)
get_stream_attributes(infos, frame_number) ==
    IF infos = <<>> THEN EmptyDict
    ELSE LET info == infos[Len(infos)]
             is_sample == frame_number = None /\ info.is_sample_level
             has_frame_number == /\ info.frame_numbers # None
                                 /\ frame_number # None
                                 /\ Val(frame_number) \in Val(info.frame_numbers)
             before == get_stream_attributes(SubSeq(infos, 1, Len(infos) - 1), frame_number)
         IN IF is_sample \/ has_frame_number
            THEN DictUpdate(before, InfoStreamAttributes(info))
            ELSE before

\* frame numbers counted from 0, as the frame indices of the label file are
InfosFrameIndices(infos) ==
    {f - 1 : f \in UNION {Val(infos[i].frame_numbers) :
                            i \in {j \in DOMAIN infos : infos[j].frame_numbers # None}}}

\* OpenLABELStreamInfos.frame_numbers
InfosFrameNumbers(infos) ==
    UNION {Val(infos[i].frame_numbers) : i \in {j \in DOMAIN infos : infos[j].frame_numbers # None}}

\* the statuses the converter's loop over all_objects can end with
RECURSIVE ConvertObjects(_, _, _, _, _)
ConvertObjects(objs, frame_size, label_types, skeleton, skeleton_key) ==
    IF objs = <<>> THEN {"ok"}
    ELSE StatusThen(
            ConvertObject(Head(objs)[2], frame_size, label_types, skeleton, skeleton_key),
            ConvertObjects(Tail(objs), frame_size, label_types, skeleton, skeleton_key))

\* OpenLABELLabelConverter.to_labels: every outcome.  No projection of an
\* object hands labels back to the loop, so frame_dets, frame_kps and
\* frame_segs stay empty and the labels are the stream attributes alone.
to_labels(objs, frame_size, label_types, stream_infos, skeleton, skeleton_key) ==
    { IF st # "ok" THEN [status |-> st]
      ELSE [status |-> "ok",
            sample_labels |-> get_stream_attributes(stream_infos, None),
            frame_labels |-> [f \in InfosFrameNumbers(stream_infos) |->
                                get_stream_attributes(stream_infos, Some(f))]]
      : st \in ConvertObjects(objs, frame_size, label_types, skeleton, skeleton_key) }

\* OpenLABELAnnotations.get_labels: every outcome, each with the
\* _keys_by_label_file_id of the object registry it leaves behind
get_labels(uri, label_types, frame_size, skeleton, skeleton_key) ==
    UNION { LET stream_infos == get_stream_info(uri, stream_ids) IN
            IF stream_infos.status # "ok"
            THEN {[result |-> [status |-> stream_infos.status], object_keys |-> object_keys]}
            ELSE UNION { IF sample_objects.status # "ok"
                         THEN {[result |-> [status |-> sample_objects.status],
                                object_keys |-> sample_objects.object_keys]}
                         ELSE {[result |-> r, object_keys |-> sample_objects.object_keys] :
                                 r \in to_labels(sample_objects.value, frame_size, label_types,
                                                 stream_infos.infos, skeleton, skeleton_key)}
                         : sample_objects \in get_objects(stream_infos.infos, <<>>, object_keys) }
            : stream_ids \in StreamIdOrders(uri) }

---------------------------------------------------------------------------
(* Importer configuration: OpenLABELImageDatasetImporter.__init__,         *)
(* OpenLABELVideoDatasetImporter.__init__ and _parse_label_types           *)

\* a list of label types passed to an importer has up to MaxLabelTypes
\* elements
MaxLabelTypes == 2

_SUPPORTED_LABEL_TYPES == <<"detections", "segmentations", "keypoints">>

\* a ValueError and the values formatted into its message
ValueError(text, named, supported) ==
    [status |-> "ValueError",
     message |-> [text |-> text, named |-> named, supported |-> supported]]

\* a message that names the first unsupported type only
bad_types_first_only(label_types) ==
    LET bad == SelectSeq(label_types, LAMBDA l : l \notin SeqToSet(_SUPPORTED_LABEL_TYPES))
    IN IF bad = <<>> THEN <<>> ELSE <<bad[1]>>

\* bad_types = [l for l in label_types if l not in _SUPPORTED_LABEL_TYPES]
bad_types(label_types) ==
    SelectSeq(label_types, LAMBDA l : l \notin SeqToSet(_SUPPORTED_LABEL_TYPES))

\* label_types is None, <<[str |-> s]>> for a string or <<[list |-> seq]>>
\* for any other iterable
_parse_label_types(label_types) ==
    IF label_types = None
    THEN [status |-> "ok", value |-> _SUPPORTED_LABEL_TYPES]
    ELSE LET types == IF "str" \in DOMAIN Val(label_types)
                      THEN <<Val(label_types).str>>
                      ELSE Val(label_types).list
             bad == bad_types(types)
         IN IF Len(bad) = 1
            THEN ValueError("Unsupported label type '%s'. Supported types are %s",
                            <<bad[1]>>, _SUPPORTED_LABEL_TYPES)
            ELSE IF Len(bad) > 1
            THEN ValueError("Unsupported label types %s. Supported types are %s",
                            bad, _SUPPORTED_LABEL_TYPES)
            ELSE [status |-> "ok", value |-> types]

\* __init__ of either importer: the exception it raises, or the fields of
\* the importer it builds
ImporterInit(dataset_dir, data_path, labels_path, label_types, use_polylines) ==
    IF dataset_dir = None /\ data_path = None /\ labels_path = None
    THEN ValueError("At least one of dataset_dir, data_path, and labels_path must be provided",
                    <<>>, <<>>)
    ELSE LET _label_types == _parse_label_types(label_types)
         IN IF _label_types.status # "ok" THEN _label_types
            ELSE [status |-> "ok",
                  _label_types |-> _label_types.value,
                  use_polylines |-> use_polylines]

\* the values an importer is built with
PathArgs == {None, Some("dir")}

LabelTypeNames == {"detections", "segmentations", "keypoints", "boxes", "masks"}

LabelTypesArgs ==
    {None} \cup {Some([str |-> s]) : s \in LabelTypeNames}
           \cup {Some([list |-> l]) : l \in SeqsUpTo(LabelTypeNames, MaxLabelTypes)}

NewImporter(op, dataset_dir, data_path, labels_path, label_types, use_polylines) ==
    /\ call = NoCall
    /\ call' = [op |-> op, dataset_dir |-> dataset_dir, data_path |-> data_path,
                labels_path |-> labels_path, label_types |-> label_types,
                use_polylines |-> use_polylines]
    /\ result' = ImporterInit(dataset_dir, data_path, labels_path, label_types, use_polylines)
    /\ UNCHANGED <<streams, stream_keys, uri_index, objects, object_keys, nops>>

NewImageImporter ==
    \E dataset_dir \in PathArgs, data_path \in PathArgs, labels_path \in PathArgs,
       label_types \in LabelTypesArgs, use_polylines \in BOOLEAN :
        NewImporter("OpenLABELImageDatasetImporter", dataset_dir, data_path, labels_path,
                    label_types, use_polylines)

NewVideoImporter ==
    \E dataset_dir \in PathArgs, data_path \in PathArgs, labels_path \in PathArgs,
       label_types \in LabelTypesArgs, use_polylines \in BOOLEAN :
        NewImporter("OpenLABELVideoDatasetImporter", dataset_dir, data_path, labels_path,
                    label_types, use_polylines)

NextConfig == NewImageImporter \/ NewVideoImporter

SpecConfig == Init /\ [][NextConfig]_vars

---------------------------------------------------------------------------
(* The importer's life: label files are ingested, then a media URI is      *)
(* resolved.  A behaviour follows the ingestion with one resolution.       *)

\* the stream dicts a label file of the pipeline declares
CameraDicts == {d \in StreamDicts : d.type \in {None, Some("camera")}}

PointsDict ==
    [name |-> None, type |-> Some("person"),
     object_data |-> Some([bbox |-> <<>>, poly2d |-> <<>>,
                           point2d |-> << [val |-> Some(<<1, 1, 2, 2>>),
                                           flat |-> [name |-> "nose"],
                                           attributes |-> <<>>] >>,
                           flat |-> EmptyDict, attributes |-> <<>>]),
     flat |-> EmptyDict, attributes |-> <<>>]

LabelObjectDicts == {CarDict, BareDict, PointsDict, MalformedDict}

LabelTypeSets ==
    {{}, {"detections"}, {"keypoints"}, {"segmentations"},
     {"detections", "keypoints", "segmentations"}}

ImageSize == <<640, 480>>

\* no resolution has been called yet
Ingesting == call.op \in {"none", "add_stream", "add_object"}

GetStreamInfo(uri) ==
    /\ \E stream_ids \in StreamIdOrders(uri) : result' = get_stream_info(uri, stream_ids)
    /\ call' = [op |-> "get_stream_info", uri |-> uri]
    /\ UNCHANGED <<streams, stream_keys, uri_index, objects, object_keys, nops>>

\* get_objects on the stream infos get_stream_info has just returned
GetObjects ==
    /\ call.op = "get_stream_info"
    /\ result.status = "ok"
    /\ \E r \in get_objects(result.infos, <<>>, object_keys) :
          /\ result' = IF r.status = "ok" THEN [status |-> "ok", value |-> r.value]
                       ELSE [status |-> r.status]
          /\ object_keys' = r.object_keys
    /\ call' = [op |-> "get_objects", uri |-> call.uri, stream_infos |-> result.infos]
    /\ UNCHANGED <<streams, stream_keys, uri_index, objects, nops>>

GetLabels(uri, label_types, frame_size) ==
    /\ \E r \in get_labels(uri, label_types, frame_size, None, None) :
          /\ result' = r.result
          /\ object_keys' = r.object_keys
    /\ call' = [op |-> "get_labels", uri |-> uri, label_types |-> label_types,
                frame_size |-> frame_size]
    /\ UNCHANGED <<streams, stream_keys, uri_index, objects, nops>>

\* Iteration of the importers: __next__ of the image and video importers,
\* OpenLABELStreams.get_dimensions and _merge_frame_labels

\* OpenLABELStreams.get_dimensions(uri): (height, width) of the first of the
\* stream ids of uri, which list(set) may put in any order
get_dimensions(uri) ==
    IF uri \in DOMAIN uri_index /\ uri_index[uri] # {}
    THEN { IF stream_id \in DOMAIN streams
           THEN <<streams[stream_id].height, streams[stream_id].width>>
           ELSE <<None, None>>
           : stream_id \in uri_index[uri] }
    ELSE {<<None, None>>}

\* isinstance(sample_labels[name], list): the lists of a label dict are the
\* values the converter files under its three label keys
IsListField(name) == name \in SeqToSet(_SUPPORTED_LABEL_TYPES)

\* the body of _merge_frame_labels for the label dict of one frame
MergeLabelsOfFrame(sample_labels, labels) ==
    [name \in DOMAIN sample_labels \cup DOMAIN labels |->
        IF name \in DOMAIN sample_labels
        THEN IF name \in DOMAIN labels /\ IsListField(name)
             THEN sample_labels[name] \o labels[name]
             ELSE sample_labels[name]
        ELSE labels[name]]

\* _merge_frame_labels, the frames of frame_labels taken in the order frames
RECURSIVE MergeFrames(_, _, _)
MergeFrames(sample_labels, frame_labels, frames) ==
    IF frames = <<>> THEN sample_labels
    ELSE MergeFrames(MergeLabelsOfFrame(sample_labels, frame_labels[Head(frames)]),
                     frame_labels, Tail(frames))

\* the elements of a set of numbers in increasing order
RECURSIVE SortedNumbers(_)
SortedNumbers(S) ==
    IF S = {} THEN <<>>
    ELSE LET least == CHOOSE x \in S : \A y \in S : x <= y
         IN <<least>> \o SortedNumbers(S \ {least})

\* _merge_frame_labels: the converter inserts the frames of the stream
\* infos into frame_labels in increasing order
_merge_frame_labels(sample_labels, frame_labels) ==
    MergeFrames(sample_labels, frame_labels, SortedNumbers(DOMAIN frame_labels))

\* next(iter(labels.values())) if labels else None: the value of the key
\* inserted first.  The keys of sample_labels come before the keys the
\* frames add; the model keeps no order within either group.
FirstValue(sample_labels, labels) ==
    IF labels = EmptyDict THEN {None}
    ELSE IF sample_labels # EmptyDict
    THEN {Some(labels[name]) : name \in DOMAIN sample_labels}
    ELSE {Some(labels[name]) : name \in DOMAIN labels}

\* the label type lists an importer is built with
ImporterLabelTypes ==
    {<<>>, <<"detections">>, <<"keypoints">>, <<"detections", "keypoints">>,
     _SUPPORTED_LABEL_TYPES}

\* the (width, height) the metadata of a media file is built with when the
\* streams declare none
FrameSizeFor(hw) ==
    IF hw[1] = None \/ hw[2] = None THEN ImageSize ELSE <<Val(hw[2]), Val(hw[1])>>

\* what __next__ of the image importer returns for the outcome r of
\* get_labels; merged_labels is `labels` before the scalar selection
ImageSample(file_id, frame_size, _label_types, r) ==
    IF r.status # "ok" THEN {r}
    ELSE LET labels == _merge_frame_labels(r.sample_labels, r.frame_labels)
         IN { [status |-> "ok",
               sample_path |-> file_id,
               sample_metadata |-> [width |-> frame_size[1], height |-> frame_size[2]],
               labels |-> l,
               merged_labels |-> labels]
              : l \in IF Len(_label_types) = 1
                      THEN FirstValue(r.sample_labels, labels)
                      ELSE {labels} }

\* OpenLABELImageDatasetImporter.__next__ for the file id file_id
ImageNext(file_id, _label_types) ==
    /\ \E hw \in get_dimensions(file_id) :
          \E r \in get_labels(file_id, SeqToSet(_label_types), FrameSizeFor(hw), None, None) :
             /\ object_keys' = r.object_keys
             /\ result' \in ImageSample(file_id, FrameSizeFor(hw), _label_types, r.result)
    /\ call' = [op |-> "OpenLABELImageDatasetImporter.__next__", file_id |-> file_id,
                _label_types |-> _label_types]
    /\ UNCHANGED <<streams, stream_keys, uri_index, objects, nops>>

\* what __next__ of the video importer returns for the outcome r of
\* get_labels
VideoSample(file_id, frame_size, r) ==
    IF r.status # "ok" THEN r
    ELSE [status |-> "ok",
          sample_path |-> file_id,
          sample_metadata |-> [frame_width |-> frame_size[1], frame_height |-> frame_size[2]],
          sample_labels |-> r.sample_labels,
          frame_labels |-> r.frame_labels]

\* OpenLABELVideoDatasetImporter.__next__ for the file id file_id
VideoNext(file_id, _label_types) ==
    /\ \E hw \in get_dimensions(file_id) :
          \E r \in get_labels(file_id, SeqToSet(_label_types), FrameSizeFor(hw), None, None) :
             /\ object_keys' = r.object_keys
             /\ result' = VideoSample(file_id, FrameSizeFor(hw), r.result)
    /\ call' = [op |-> "OpenLABELVideoDatasetImporter.__next__", file_id |-> file_id,
                _label_types |-> _label_types]
    /\ UNCHANGED <<streams, stream_keys, uri_index, objects, nops>>

Next ==
    \/ /\ Ingesting
       /\ \E l \in LabelFileIds, n \in StreamNames, d \in CameraDicts : AddStreamTop(l, n, d)
    \/ /\ Ingesting
       /\ \E l \in LabelFileIds, n \in StreamNames, d \in CameraDicts, f \in FrameIdxs :
             AddStreamFrame(l, n, d, f)
    \/ /\ Ingesting
       /\ \E l \in LabelFileIds, k \in ObjectKeys, d \in LabelObjectDicts : AddObjectTop(l, k, d)
    \/ /\ Ingesting
       /\ \E l \in LabelFileIds, k \in ObjectKeys, d \in LabelObjectDicts, f \in FrameIdxs :
             AddObjectFrame(l, k, d, f)
    \/ /\ Ingesting
       /\ \E u \in Uris : GetStreamInfo(u)
    \/ GetObjects
    \/ /\ Ingesting
       /\ \E u \in Uris, t \in LabelTypeSets : GetLabels(u, t, ImageSize)
    \/ /\ Ingesting
       /\ \E u \in Uris, t \in ImporterLabelTypes : ImageNext(u, t)
    \/ /\ Ingesting
       /\ \E u \in Uris, t \in ImporterLabelTypes : VideoNext(u, t)

Spec == Init /\ [][Next]_vars

\* the ingestion of label files alone
NextIngest ==
    \/ \E l \in LabelFileIds, n \in StreamNames, d \in CameraDicts : AddStreamTop(l, n, d)
    \/ \E l \in LabelFileIds, n \in StreamNames, d \in CameraDicts, f \in FrameIdxs :
          AddStreamFrame(l, n, d, f)
    \/ \E l \in LabelFileIds, k \in ObjectKeys, d \in LabelObjectDicts : AddObjectTop(l, k, d)
    \/ \E l \in LabelFileIds, k \in ObjectKeys, d \in LabelObjectDicts, f \in FrameIdxs :
          AddObjectFrame(l, k, d, f)

SpecIngest == Init /\ [][NextIngest]_vars

---------------------------------------------------------------------------
(* Properties of resolution (Spec) *)

\* the registries hold what the end-to-end scenario ingests: one camera
\* stream with the URI uri, and one top-level object with a type and
\* exactly one bbox of 4 coordinates
EndToEndScenario(uri) ==
    /\ Cardinality(DOMAIN streams) = 1
    /\ \A i \in DOMAIN streams :
          /\ streams[i].type = Some("camera")
          /\ streams[i]._uris = <<uri>>
          /\ streams[i].frame_streams = EmptyDict
    /\ Cardinality(DOMAIN objects) = 1
    /\ \A i \in DOMAIN objects :
          /\ objects[i].type # None
          /\ objects[i].frame_objects = EmptyDict
          /\ Len(objects[i].shapes["bboxes"].shapes) = 1
          /\ Len(Val(objects[i].shapes["bboxes"].shapes[1].coords)) = 4
          /\ objects[i].shapes["segmentations"].shapes = <<>>
          /\ objects[i].shapes["keypoints"].shapes = <<>>

\* C1 as stated: after the end-to-end scenario is ingested, get_labels for
\* the stream's URI with label_types = ["detections"] completes without
\* error, and the sample's labels hold under "detections" exactly one
\* Detection whose label is the object's type and whose box is the
\* normalized bbox.
C1_EndToEndDetection ==
    (/\ call.op = "get_labels"
     /\ call.label_types = {"detections"}
     /\ EndToEndScenario(call.uri))
    => /\ result.status = "ok"
       /\ "detections" \in DOMAIN result.sample_labels
       /\ Len(result.sample_labels["detections"]) = 1
       /\ \A i \in DOMAIN objects :
            LET det == result.sample_labels["detections"][1]
                box == Val(objects[i].shapes["bboxes"].shapes[1].coords)
            IN /\ det.cls = "Detection"
               /\ det.label = objects[i].type
               /\ det.fields.bounding_box =
                     BoundingBox(box, call.frame_size[1], call.frame_size[2])

\* C9 as stated: get_stream_info for a URI that matches no indexed stream
\* does not raise and returns exactly one StreamInfo, streamless and flagged
\* sample-level.
C9_UnknownUriStreamless ==
    (call.op = "get_stream_info" /\ call.uri \notin DOMAIN uri_index)
    => /\ result.status = "ok"
       /\ Len(result.infos) = 1
       /\ result.infos[1].stream = None
       /\ result.infos[1].is_sample_level = TRUE

\* C10 as stated: a get_stream_info, get_objects or get_labels call leaves
\* the stream registry and the object registry, identity index and
\* secondary indexes alike, unchanged.
C10_ResolutionReadOnly ==
    [][call'.op \in {"get_stream_info", "get_objects", "get_labels"}
       => UNCHANGED <<streams, stream_keys, uri_index, objects, object_keys>>]_vars

---------------------------------------------------------------------------
(* Properties of the importer configuration (SpecConfig) *)

IsNewImporter ==
    call.op \in {"OpenLABELImageDatasetImporter", "OpenLABELVideoDatasetImporter"}

\* the label types a call requests, as a list
RequestedLabelTypes(c) ==
    IF "str" \in DOMAIN Val(c.label_types) THEN <<Val(c.label_types).str>>
    ELSE Val(c.label_types).list

NoPathGiven(c) == c.dataset_dir = None /\ c.data_path = None /\ c.labels_path = None

\* C11: building an importer with dataset_dir, data_path and labels_path
\* all None raises an error; with a path given, label_types holding a value
\* outside the supported three raises an error whose message names every
\* unsupported value requested and the supported list; label_types = None
\* selects the three supported types and one supported string selects
\* exactly that type.
C11_ConfigurationErrors ==
    IsNewImporter =>
        /\ NoPathGiven(call) => result.status = "ValueError"
        /\ (call.label_types # None
            /\ ~(SeqToSet(RequestedLabelTypes(call)) \subseteq SeqToSet(_SUPPORTED_LABEL_TYPES)))
           => /\ result.status = "ValueError"
              /\ ~NoPathGiven(call) =>
                   /\ SeqToSet(result.message.named) =
                         SeqToSet(RequestedLabelTypes(call)) \ SeqToSet(_SUPPORTED_LABEL_TYPES)
                   /\ result.message.supported = _SUPPORTED_LABEL_TYPES
        /\ (~NoPathGiven(call) /\ call.label_types = None)
           => /\ result.status = "ok"
              /\ SeqToSet(result._label_types) = {"detections", "segmentations", "keypoints"}
              /\ Len(result._label_types) = 3
        /\ (/\ ~NoPathGiven(call)
            /\ call.label_types # None
            /\ "str" \in DOMAIN Val(call.label_types)
            /\ Val(call.label_types).str \in SeqToSet(_SUPPORTED_LABEL_TYPES))
           => /\ result.status = "ok"
              /\ result._label_types = <<Val(call.label_types).str>>

\* an importer was asked for two different unsupported label types and the
\* error names both
C11_Witness ==
    /\ IsNewImporter
    /\ ~NoPathGiven(call)
    /\ call.label_types = Some([list |-> <<"boxes", "masks">>])
    /\ result.status = "ValueError"
    /\ result.message.named = <<"boxes", "masks">>

---------------------------------------------------------------------------
(* Properties of the projection of a malformed bbox (Spec) *)

\* a bbox whose coordinate count is not 4
MalformedBBox(shape) == shape.coords # None /\ Len(Val(shape.coords)) # 4

BBoxesOf(o) == o.shapes["bboxes"].shapes

\* the bboxes stored in the object registry, top-level and per frame
StoredBBoxes ==
    UNION { SeqToSet(BBoxesOf(objects[i]))
            \cup UNION { SeqToSet(BBoxesOf(objects[i].frame_objects[f])) :
                           f \in DOMAIN objects[i].frame_objects }
            : i \in DOMAIN objects }

\* the first bbox the projection of o calls to_label on is malformed: the
\* first of its own bboxes, or when it has none the first bbox of each frame
\* override that has one
ReachesMalformedFirst(o) ==
    IF BBoxesOf(o) # <<>> THEN MalformedBBox(BBoxesOf(o)[1])
    ELSE /\ \E f \in DOMAIN o.frame_objects : BBoxesOf(o.frame_objects[f]) # <<>>
         /\ \A f \in DOMAIN o.frame_objects :
               BBoxesOf(o.frame_objects[f]) # <<>>
               => MalformedBBox(BBoxesOf(o.frame_objects[f])[1])

\* every resolution of uri succeeds and hands the converter, as its first
\* object, one whose projection reaches a malformed bbox first
ResolvesToMalformed(uri) ==
    \A stream_ids \in StreamIdOrders(uri) :
        LET stream_infos == get_stream_info(uri, stream_ids)
        IN /\ stream_infos.status = "ok"
           /\ \A sample_objects \in get_objects(stream_infos.infos, <<>>, object_keys) :
                 /\ sample_objects.status = "ok"
                 /\ sample_objects.value # <<>>
                 /\ ReachesMalformedFirst(sample_objects.value[1][2])

\* C12: to_label of a bbox whose coordinate count is not 4 raises ValueError
\* and yields no label; the projection of an object that reaches such a
\* bbox first raises it, the converter's loop raises it, and get_labels
\* with detections requested ends with it.
C12_MalformedBBoxPropagates ==
    /\ \A shape \in StoredBBoxes : \A attributes \in {None, Some(EmptyDict)} :
          MalformedBBox(shape)
          => BBox_to_label(shape, Some("car"), attributes, ImageSize[1], ImageSize[2])
                = [status |-> "ValueError"]
    /\ \A i \in DOMAIN objects :
          ReachesMalformedFirst(objects[i])
          => /\ to_detections(objects[i], ImageSize) = {[status |-> "ValueError"]}
             /\ ConvertObject(objects[i], ImageSize, {"detections"}, None, None)
                   = {"ValueError"}
    /\ (/\ call.op = "get_labels"
        /\ "detections" \in call.label_types
        /\ ResolvesToMalformed(call.uri))
       => result.status = "ValueError"

\* get_labels with detections requested resolved an object with a malformed
\* bbox and ended with ValueError
C12_Witness ==
    /\ call.op = "get_labels"
    /\ "detections" \in call.label_types
    /\ ResolvesToMalformed(call.uri)
    /\ result.status = "ValueError"

---------------------------------------------------------------------------
(* Properties of the importers' iteration (Spec) *)

\* C13 as stated: a step of the image importer that returns yields the
\* sample path, the metadata and labels; when exactly one label type was
\* requested, labels is the merged value of that label type (None when the
\* merged dict has no such key) and never the value of another key;
\* otherwise labels is the merged dict.
C13_ImageLabelsShape ==
    (call.op = "OpenLABELImageDatasetImporter.__next__" /\ result.status = "ok")
    => /\ result.sample_path = call.file_id
       /\ IF Len(call._label_types) = 1
          THEN result.labels =
                  IF call._label_types[1] \in DOMAIN result.merged_labels
                  THEN Some(result.merged_labels[call._label_types[1]])
                  ELSE None
          ELSE result.labels = result.merged_labels

---------------------------------------------------------------------------
(* Properties of the ingestion of frame blocks (SpecIngest) *)

\* the fields of an object that a top-level update may write
ObjectTopFields(o) == <<o.name, o.type, o.shapes, o.stream, o.other_attrs>>

\* a step that ingests a stream or an object of a frame block
FrameIngest ==
    /\ call'.op \in {"add_stream", "add_object"}
    /\ call'.frame_ind # None
    /\ nops' = nops + 1

\* the number of bboxes a raw object dict lists
BBoxCount(d) == IF d.object_data = None THEN 0 ELSE Len(Val(d.object_data).bbox)

\* the step ingests a stream of a frame block: the stream is stored under
\* (label_file_id, name), its override of frame_number holds the URI of the
\* dict, and its top-level fields and other overrides are as before
StreamFrameRecorded(c, frame_number) ==
    LET id == _get_element_id(c.label_file_id, c.name)
        before == IF id \in DOMAIN streams THEN streams[id]
                  ELSE NewStream(c.name, None, None, <<>>, EmptyDict)
    IN /\ id \in DOMAIN streams'
       /\ frame_number \in DOMAIN streams'[id].frame_streams
       /\ TruthyStr(c.d.uri)
          => Val(c.d.uri) \in SeqToSet(streams'[id].frame_streams[frame_number]._uris)
       /\ StreamTopFields(streams'[id]) = StreamTopFields(before)
       /\ \A f \in DOMAIN streams'[id].frame_streams \ {frame_number} :
             /\ f \in DOMAIN before.frame_streams
             /\ streams'[id].frame_streams[f] = before.frame_streams[f]

\* the same for an object of a frame block and its bboxes
ObjectFrameRecorded(c, frame_number) ==
    LET id == _get_element_id(c.label_file_id, c.key)
        before == IF id \in DOMAIN objects THEN objects[id]
                  ELSE NewObject(c.key, None, None, NoShapes, NoShapes, NoShapes,
                                 None, EmptyDict, FALSE)
        bboxes_before == IF frame_number \in DOMAIN before.frame_objects
                         THEN Len(before.frame_objects[frame_number].shapes["bboxes"].shapes)
                         ELSE 0
    IN /\ id \in DOMAIN objects'
       /\ frame_number \in DOMAIN objects'[id].frame_objects
       /\ Len(objects'[id].frame_objects[frame_number].shapes["bboxes"].shapes)
             = bboxes_before + BBoxCount(c.d)
       /\ ObjectTopFields(objects'[id]) = ObjectTopFields(before)
       /\ \A f \in DOMAIN objects'[id].frame_objects \ {frame_number} :
             /\ f \in DOMAIN before.frame_objects
             /\ objects'[id].frame_objects[f] = before.frame_objects[f]

\* C15: a stream or an object of the frame block with 0-based index i is
\* recorded as the override of frame number int(i) + 1 of the entity stored
\* under (label_file_id, key); the entity's top-level data and its other
\* overrides are left as they were.
C15_FrameOverrides ==
    [][FrameIngest
       => IF call'.op = "add_stream"
          THEN StreamFrameRecorded(call', int(Val(call'.frame_ind)) + 1)
          ELSE ObjectFrameRecorded(call', int(Val(call'.frame_ind)) + 1)]_vars

\* an object that has top-level bboxes was given a bbox in the frame block
\* of index "1": the bbox is in its override of frame 2 and the top-level
\* bboxes are as ingested
C15_Witness ==
    /\ call.op = "add_object"
    /\ call.frame_ind = Some("1")
    /\ BBoxCount(call.d) = 1
    /\ LET id == _get_element_id(call.label_file_id, call.key)
       IN /\ id \in DOMAIN objects
          /\ DOMAIN objects[id].frame_objects = {2}
          /\ Len(objects[id].frame_objects[2].shapes["bboxes"].shapes) = 1
          /\ Len(objects[id].shapes["bboxes"].shapes) = 1

---------------------------------------------------------------------------
(* Properties of streamless filtering (SpecObjects) *)

\* C16 as stated: against a streamless stream info, filter_stream keeps an
\* object exactly when it is top-level and has no stream reference, on the
\* object or on its shapes; an object with a stream reference and a
\* frame-level object are dropped.
C16_StreamlessKeepsUnboundOnly ==
    (call.op = "filter_stream" /\ call.stream_info.stream = None)
    => /\ result.status = "ok"
       /\ (result.value # None)
             <=> (~call.obj.is_frame_level /\ NoStreamReference(call.obj))

---------------------------------------------------------------------------
(* Properties of get_objects (Spec) *)

\* the keys ingested under label_file_id
KeysIngestedUnder(label_file_id) ==
    IF label_file_id \in DOMAIN object_keys THEN object_keys[label_file_id] ELSE {}

\* C17 as stated: get_objects finds every object key ingested under the
\* label_file_id of each of its stream infos, so it does not fail, and the
\* sub-registry it returns holds an object for each such key that
\* filter_stream keeps, and only objects of those keys.
C17_ResolvesEveryKey ==
    call.op = "get_objects"
    => /\ result.status = "ok"
       /\ \A i \in DOMAIN call.stream_infos :
             \A key \in KeysIngestedUnder(call.stream_infos[i].label_file_id) :
                LET obj_id == _get_element_id(call.stream_infos[i].label_file_id, key)
                IN /\ obj_id \in DOMAIN objects
                   /\ filter_stream(objects[obj_id], call.stream_infos[i]).value # None
                      => \E j \in DOMAIN result.value : result.value[j][2].key = key
       /\ \A j \in DOMAIN result.value :
             \E i \in DOMAIN call.stream_infos :
                result.value[j][2].key
                   \in KeysIngestedUnder(call.stream_infos[i].label_file_id)

---------------------------------------------------------------------------
(* Properties of get_stream_info (Spec) *)

\* C18 as stated: for every stream ingested under (label_file_id, name) that
\* exposes the URI asked for, get_stream_info returns a stream info of that
\* stream that carries exactly that label_file_id.
C18_InfoCarriesLabelFileId ==
    (call.op = "get_stream_info" /\ result.status = "ok")
    => \A label_file_id \in DOMAIN stream_keys : \A name \in stream_keys[label_file_id] :
          _get_element_id(label_file_id, name) \in uri_index[call.uri]
          => \E i \in DOMAIN result.infos :
                /\ Val(result.infos[i].stream).name = name
                /\ result.infos[i].label_file_id = label_file_id

---------------------------------------------------------------------------
(* Properties of the ingestion of non-camera streams (SpecStreams) *)

\* every stored stream and every frame override has type None or "camera"
OnlyCameraTypesStored ==
    \A id \in DOMAIN streams :
        /\ streams[id].type \in {None, Some("camera")}
        /\ \A f \in DOMAIN streams[id].frame_streams :
              streams[id].frame_streams[f].type \in {None, Some("camera")}

\* C19 as stated: a step that ingests a raw stream dict whose type is
\* non-null and not "camera", at top level or in a frame block, leaves the
\* stream registry as it was (no stream entry, no frame override, no URI
\* index entry is added), and after every step each stored stream and frame
\* override has type None or "camera".
C19_NonCameraDiscarded ==
    [][/\ (/\ call'.op = "add_stream"
           /\ call'.d.type # None
           /\ call'.d.type # Some("camera"))
          => UNCHANGED <<streams, stream_keys, uri_index>>
       /\ OnlyCameraTypesStored']_vars

---------------------------------------------------------------------------
(* Properties of the converter's output (Spec) *)

\* the sub-registries get_objects can hand the converter for uri
ResolutionOutcomes(uri) ==
    UNION { LET stream_infos == get_stream_info(uri, stream_ids)
            IN IF stream_infos.status # "ok" THEN {[status |-> stream_infos.status]}
               ELSE get_objects(stream_infos.infos, <<>>, object_keys)
            : stream_ids \in StreamIdOrders(uri) }

\* the shapes a label type is projected from
ShapeKeyOf(label_type) ==
    CASE label_type = "detections" -> "bboxes"
      [] label_type = "segmentations" -> "segmentations"
      [] OTHER -> "keypoints"

\* the frame numbers at which the objects objs have shapes of a label type
FramesWithShapes(objs, label_type) ==
    UNION { {f \in DOMAIN objs[j][2].frame_objects :
               objs[j][2].frame_objects[f].shapes[ShapeKeyOf(label_type)].shapes # <<>>}
            : j \in DOMAIN objs }

\* C20 as stated: when the resolution of the URI hands the converter at
\* least one object, get_labels returns frame dictionaries in which a label
\* type that was requested is a key of exactly the frames where an object
\* has shapes of that type, each filed under its own key, and a label type
\* that was not requested is a key of no frame.
C20_ConverterKeys ==
    (/\ call.op = "get_labels"
     /\ \A r \in ResolutionOutcomes(call.uri) : r.status = "ok" /\ r.value # <<>>)
    => /\ result.status = "ok"
       /\ \E r \in ResolutionOutcomes(call.uri) :
             \A label_type \in SeqToSet(_SUPPORTED_LABEL_TYPES) :
                {f \in DOMAIN result.frame_labels :
                    label_type \in DOMAIN result.frame_labels[f]}
                = IF label_type \in call.label_types
                  THEN FramesWithShapes(r.value, label_type)
                  ELSE {}

---------------------------------------------------------------------------
(* Properties of a stream's URIs (SpecStreams) *)

\* a list of URIs in sorted order without duplicates
StrictlySortedUris(l) ==
    \A i, j \in DOMAIN l : i < j => UriRank(l[i]) < UriRank(l[j])

\* the URIs a stream holds itself or in one of its frame overrides
HeldUris(s) ==
    SeqToSet(s._uris) \cup
    UNION {SeqToSet(s.frame_streams[f]._uris) : f \in DOMAIN s.frame_streams}

\* C21: after every step, the `uris` of each stored stream are exactly its
\* own URIs and those of its frame overrides, sorted and without
\* duplicates; and no step removes a URI from a stream's `uris`.
C21_UrisInvariant ==
    [][\A id \in DOMAIN streams' :
          /\ SeqToSet(StreamUris(streams'[id])) = HeldUris(streams'[id])
          /\ StrictlySortedUris(StreamUris(streams'[id]))
          /\ id \in DOMAIN streams
             => SeqToSet(StreamUris(streams[id])) \subseteq SeqToSet(StreamUris(streams'[id]))]_vars

\* a stream that holds one URI itself and another in a frame override, the
\* second ingested after the first
C21_Witness ==
    /\ nops = 2
    /\ \E id \in DOMAIN streams :
          /\ streams[id]._uris = <<"img2.jpg">>
          /\ \E f \in DOMAIN streams[id].frame_streams :
                streams[id].frame_streams[f]._uris = <<"img1.jpg">>
          /\ StreamUris(streams[id]) = <<"img1.jpg", "img2.jpg">>

---------------------------------------------------------------------------
(* Properties of the URI index (SpecStreams) *)

\* C22: every stored stream is indexed under each URI it exposes, and every
\* stream id the index lists under a URI is the id of a stored stream that
\* exposes that URI.
C22_UriIndexConsistent ==
    /\ \A id \in DOMAIN streams : \A u \in HeldUris(streams[id]) :
          u \in DOMAIN uri_index /\ id \in uri_index[u]
    /\ \A u \in DOMAIN uri_index : \A id \in uri_index[u] :
          id \in DOMAIN streams /\ u \in HeldUris(streams[id])

\* one URI indexed for two streams, one of which exposes it only through a
\* frame override
C22_Witness ==
    \E u \in DOMAIN uri_index :
        /\ Cardinality(uri_index[u]) = 2
        /\ \E id \in uri_index[u] :
              /\ u \notin SeqToSet(streams[id]._uris)
              /\ \E f \in DOMAIN streams[id].frame_streams :
                    u \in SeqToSet(streams[id].frame_streams[f]._uris)

---------------------------------------------------------------------------
(* The frame numbers of a URI in a stream: streams of cameras are ingested *)
(* and a stored stream is asked for the frame numbers of a URI.            *)

GetFrameNumbers(stream_id, uri) ==
    /\ call.op = "add_stream"
    /\ stream_id \in DOMAIN streams
    /\ LET r == get_frame_numbers(streams[stream_id], uri)
       IN result' = [frame_numbers |-> r[1], is_sample_level |-> r[2]]
    /\ call' = [op |-> "get_frame_numbers", stream_id |-> stream_id, uri |-> uri]
    /\ UNCHANGED <<streams, stream_keys, uri_index, objects, object_keys, nops>>

StreamIds == {_get_element_id(l, n) : l \in LabelFileIds, n \in StreamNames}

NextFrameNumbers ==
    \/ \E l \in LabelFileIds, n \in StreamNames, d \in CameraDicts : AddStreamTop(l, n, d)
    \/ \E l \in LabelFileIds, n \in StreamNames, d \in CameraDicts, f \in FrameIdxs :
          AddStreamFrame(l, n, d, f)
    \/ \E id \in StreamIds, u \in Uris : GetFrameNumbers(id, u)

SpecFrameNumbers == Init /\ [][NextFrameNumbers]_vars

\* the frame numbers of s whose override lists uri
FramesListing(s, uri) ==
    {f \in DOMAIN s.frame_streams : uri \in SeqToSet(s.frame_streams[f]._uris)}

\* C23: get_frame_numbers(uri) of a stream answers with all keys of its
\* frame overrides and is_sample_level = True when uri is one of the
\* stream's own URIs, and otherwise with exactly the frame numbers whose
\* override lists uri (none when no override does) and is_sample_level =
\* False.
C23_FrameNumbersOfUri ==
    call.op = "get_frame_numbers"
    => LET s == streams[call.stream_id]
       IN IF call.uri \in SeqToSet(s._uris)
          THEN /\ result.frame_numbers = DOMAIN s.frame_streams
               /\ result.is_sample_level = TRUE
          ELSE /\ result.frame_numbers = FramesListing(s, call.uri)
               /\ result.is_sample_level = FALSE

\* a stream with two frame overrides of which one lists the URI asked for,
\* which is not one of the stream's own
C23_Witness ==
    /\ call.op = "get_frame_numbers"
    /\ result.is_sample_level = FALSE
    /\ Cardinality(result.frame_numbers) = 1
    /\ Cardinality(DOMAIN streams[call.stream_id].frame_streams) = 2

---------------------------------------------------------------------------
(* AttributeParser._parse_attributes on a node, as a function of its own   *)

AttrRecords ==
    {[name |-> n, val |-> v] : n \in {"stream", "Stream", "occluded", "val"},
                               v \in {"cam", "x"}}

FlatNodes ==
    {[k \in K |-> CASE k = "name" -> "b" [] k = "bbox" -> "raw" [] OTHER -> "front"] :
        K \in SUBSET {"name", "bbox", "stream"}}

ParseAttributes(flat, attrs) ==
    /\ call = NoCall
    /\ call' = [op |-> "_parse_attributes", flat |-> flat, attrs |-> attrs]
    /\ LET p == _parse_attributes(flat, attrs)
       IN result' = [attributes |-> p.attributes, stream |-> p.stream]
    /\ UNCHANGED <<streams, stream_keys, uri_index, objects, object_keys, nops>>

NextAttributes ==
    \E flat \in FlatNodes, attrs \in SeqsUpTo(AttrRecords, MaxAttrRecords) :
        ParseAttributes(flat, attrs)

SpecAttributes == Init /\ [][NextAttributes]_vars

\* the last record of attrs that has the name k
LastNamed(attrs, k) ==
    attrs[CHOOSE i \in DOMAIN attrs :
            /\ attrs[i].name = k
            /\ \A j \in DOMAIN attrs : attrs[j].name = k => j <= i]

\* the flat keys of the node without the structural ones, overwritten by
\* the records whose names are in `names`
FlatOverwritten(flat, attrs, names) ==
    LET kept == DictWithout(flat, _ignore_keys)
    IN [k \in (DOMAIN kept) \cup names |->
          IF k \in names THEN LastNamed(attrs, k).val ELSE kept[k]]

\* the stream reference: the value of the last record that names the
\* stream, and that of the node's own key when there is no such record
StreamRefOf(flat, attrs) ==
    LET refs == {i \in DOMAIN attrs : Lower(attrs[i].name) \in _STREAM_KEYS}
    IN IF refs # {}
       THEN Some(attrs[CHOOSE i \in refs : \A j \in refs : j <= i].val)
       ELSE IF "coordinate_system" \in DOMAIN flat THEN Some(flat["coordinate_system"])
       ELSE IF "stream" \in DOMAIN flat THEN Some(flat["stream"])
       ELSE None

\* C24 as stated: the attributes are the flat keys of the node minus the
\* structural keys, overwritten by the records of node.attributes whose
\* lowercased name is neither structural nor `stream` / `coordinate_system`;
\* a record that names the stream sets stream_ref and is not inserted.
C24_StreamRecordsNotInserted ==
    call.op = "_parse_attributes"
    => /\ result.attributes =
             FlatOverwritten(call.flat, call.attrs,
                 {call.attrs[i].name : i \in {j \in DOMAIN call.attrs :
                     /\ Lower(call.attrs[j].name) \notin _ignore_keys
                     /\ Lower(call.attrs[j].name) \notin _STREAM_KEYS}})
       /\ result.stream = StreamRefOf(call.flat, call.attrs)

\* C24, amended: the attributes are the flat keys of the node minus the
\* structural keys, overwritten by every record of node.attributes whose
\* lowercased name is not structural; a record that names the stream sets
\* stream_ref and is inserted under its name like the others.
C24_StreamRecordsInsertedToo ==
    call.op = "_parse_attributes"
    => /\ result.attributes =
             FlatOverwritten(call.flat, call.attrs,
                 {call.attrs[i].name : i \in {j \in DOMAIN call.attrs :
                     Lower(call.attrs[j].name) \notin _ignore_keys}})
       /\ result.stream = StreamRefOf(call.flat, call.attrs)

\* a node with a flat `stream` key and the records Stream = "cam" and
\* val = "x": the stream reference is "cam", the record is an attribute
\* named "Stream", the flat key is kept and `val` is left out
C24_Witness ==
    /\ call.op = "_parse_attributes"
    /\ "stream" \in DOMAIN call.flat
    /\ call.attrs = <<[name |-> "Stream", val |-> "cam"], [name |-> "val", val |-> "x"]>>
    /\ result.stream = Some("cam")
    /\ "Stream" \in DOMAIN result.attributes
    /\ result.attributes["Stream"] = "cam"
    /\ result.attributes["stream"] = "front"
    /\ "val" \notin DOMAIN result.attributes

---------------------------------------------------------------------------
(* The point projection of a shape collection, as a function of its own *)

PointCollectionShapes ==
    PointInputs \cup {ShapeOf("point2d", Some(<<5, 5>>), [id |-> <<"scalar", "n">>]),
                      ShapeOf("bbox", Some(<<50, 50, 20, 10>>), EmptyDict)}

PointCollections ==
    {[shapes |-> s, attributes |-> EmptyDict, stream |-> None] :
        s \in SeqsUpTo(PointCollectionShapes, MaxShapes)}

ToPointLabels(self, label, attributes, size) ==
    /\ call = NoCall
    /\ call' = [op |-> "_to_point_labels", self |-> self, label |-> label,
                attributes |-> attributes, width |-> size[1], height |-> size[2]]
    /\ result' = _to_point_labels(self, label, attributes, size[1], size[2], None, None)
    /\ UNCHANGED <<streams, stream_keys, uri_index, objects, object_keys, nops>>

NextPointLabels ==
    \E self \in PointCollections, l \in Labels, z \in FrameSizes,
       a \in {EmptyDict, [name |-> "car1"]} : ToPointLabels(self, l, a, z)

SpecPointLabels == Init /\ [][NextPointLabels]_vars

\* the relative points of the shapes' coordinate lists, one list after the
\* other
RECURSIVE ConcatRelPoints(_, _, _)
ConcatRelPoints(shapes, width, height) ==
    IF shapes = <<>> THEN <<>>
    ELSE RelPoints(Val(Head(shapes).coords), width, height)
         \o ConcatRelPoints(Tail(shapes), width, height)

\* the values the shapes give the attribute k, in shape order
RECURSIVE GatheredValues(_, _)
GatheredValues(shapes, k) ==
    IF shapes = <<>> THEN <<>>
    ELSE (IF k \in DOMAIN Head(shapes).attributes THEN <<Head(shapes).attributes[k]>>
          ELSE <<>>)
         \o GatheredValues(Tail(shapes), k)

\* C25 as stated: the point projection of a collection with no shapes is
\* the empty list; of shapes that are not all points, an error; and of
\* point shapes, exactly one Keypoint whose points are the (x/W, y/H) points
\* of the shapes' coordinate lists concatenated in shape order and whose
\* attributes hold, under each attribute name of a shape, the values the
\* shapes give it.
C25_PointProjection ==
    call.op = "_to_point_labels"
    => LET shapes == call.self.shapes IN
       IF shapes = <<>> THEN result = [status |-> "ok", value |-> <<>>]
       ELSE IF \E i \in DOMAIN shapes : shapes[i].kind # "point2d"
       THEN result.status = "ValueError"
       ELSE /\ result.status = "ok"
            /\ Len(result.value) = 1
            /\ result.value[1].cls = "Keypoint"
            /\ result.value[1].fields.points = ConcatRelPoints(shapes, call.width, call.height)
            /\ \A i \in DOMAIN shapes : \A k \in DOMAIN shapes[i].attributes :
                  /\ k \in DOMAIN result.value[1].attributes
                  /\ result.value[1].attributes[k] = GatheredValues(shapes, k)

---------------------------------------------------------------------------
(* The projection of stored objects: objects are ingested, and a stored    *)
(* object is projected to the labels of one of its shape collections       *)
(* (_to_labels), or the frame override an ingest has just written is asked *)
(* for its label and attributes (_get_label_attrs).                        *)

ToLabels(obj_id, shape_type) ==
    /\ call.op = "add_object"
    /\ obj_id \in DOMAIN objects
    /\ \E r \in _to_labels(objects[obj_id], ImageSize, shape_type, FALSE, None, None) :
          result' = r
    /\ call' = [op |-> "_to_labels", obj_id |-> obj_id, shape_type |-> shape_type,
                frame_size |-> ImageSize]
    /\ UNCHANGED <<streams, stream_keys, uri_index, objects, object_keys, nops>>

GetLabelAttrs ==
    /\ call.op = "add_object"
    /\ call.frame_number # None
    /\ LET obj_id == _get_element_id(call.label_file_id, call.key)
           parent == objects[obj_id]
           r == _get_label_attrs(parent.frame_objects[Val(call.frame_number)],
                                 ImageSize, Some(parent))
       IN /\ result' = [status |-> "ok", label |-> r.label, attributes |-> r.attributes]
          /\ call' = [op |-> "_get_label_attrs", obj_id |-> obj_id,
                      frame_number |-> Val(call.frame_number), d |-> call.d]
    /\ UNCHANGED <<streams, stream_keys, uri_index, objects, object_keys, nops>>

NextObjectLabels ==
    \/ \E l \in LabelFileIds, k \in ObjectKeys, d \in LabelObjectDicts : AddObjectTop(l, k, d)
    \/ \E l \in LabelFileIds, k \in ObjectKeys, d \in LabelObjectDicts, f \in FrameIdxs :
          AddObjectFrame(l, k, d, f)
    \/ \E id \in ObjectIds, t \in {"bboxes", "segmentations"} : ToLabels(id, t)
    \/ GetLabelAttrs

SpecObjectLabels == Init /\ [][NextObjectLabels]_vars

\* name, OpenLABEL_id and other attributes of an object, later ones winning
OwnAttributes(o) ==
    DictUpdate(DictUpdate(IF o.name # None THEN [k \in {"name"} |-> Val(o.name)]
                          ELSE EmptyDict,
                          [k \in {"OpenLABEL_id"} |-> o.key]),
               o.other_attrs)

\* the labels of the collection `shapes` carry, shape by shape, the merge of
\* inherited, the collection's attributes and the shape's own
LabelsCarryMerge(labels, shapes, inherited) ==
    /\ Len(labels) = Len(shapes.shapes)
    /\ \A i \in DOMAIN labels :
          labels[i].attributes =
             DictUpdate(DictUpdate(inherited, shapes.attributes), shapes.shapes[i].attributes)

\* C26 as stated: the projection of a stored object to the labels of a
\* non-point collection succeeds, each label of the object's own shapes
\* carries the merge of the object's attributes, the collection's and the
\* shape's, and each label of a frame override the merge of the parent's
\* attributes, the override's own, the collection's and the shape's, the
\* more local value winning.  (Objects all of whose bboxes have four
\* coordinates.)
C26_AttributePrecedence ==
    (/\ call.op = "_to_labels"
     /\ \A s \in StoredBBoxes : ~MalformedBBox(s))
    => LET o == objects[call.obj_id] IN
       /\ result.status = "ok"
       /\ LabelsCarryMerge(result.value[None], o.shapes[call.shape_type], OwnAttributes(o))
       /\ \A f \in DOMAIN o.frame_objects :
             LabelsCarryMerge(result.value[Some(f)],
                              o.frame_objects[f].shapes[call.shape_type],
                              DictUpdate(OwnAttributes(o), OwnAttributes(o.frame_objects[f])))

\* C27 as stated: the label of a frame override is the type its frame block
\* declared (call.d is the dict of the frame block last ingested for it),
\* and the parent's type when the override has no type of its own; its
\* `name` attribute is the override's name, and the parent's when the
\* override has none.
C27_LabelInheritance ==
    call.op = "_get_label_attrs"
    => LET parent == objects[call.obj_id]
           override == parent.frame_objects[call.frame_number]
       IN /\ call.d.type # None => result.label = call.d.type
          /\ (call.d.type = None /\ override.type = None) => result.label = parent.type
          /\ override.name # None
             => /\ "name" \in DOMAIN result.attributes
                /\ result.attributes["name"] = Val(override.name)
          /\ (override.name = None /\ parent.name # None)
             => /\ "name" \in DOMAIN result.attributes
                /\ result.attributes["name"] = Val(parent.name)

---------------------------------------------------------------------------
(* Properties of the nesting of frame overrides (SpecIngest) *)

\* C28: a frame override of a stored stream or object has no frame
\* overrides of its own; every object stored in the registry has
\* is_frame_level = False and every frame override of an object has
\* is_frame_level = True.
C28_OneLevelOfNesting ==
    /\ \A id \in DOMAIN streams : \A f \in DOMAIN streams[id].frame_streams :
          streams[id].frame_streams[f].frame_streams = EmptyDict
    /\ \A id \in DOMAIN objects :
          /\ objects[id].is_frame_level = FALSE
          /\ \A f \in DOMAIN objects[id].frame_objects :
                /\ objects[id].frame_objects[f].frame_objects = EmptyDict
                /\ objects[id].frame_objects[f].is_frame_level = TRUE

\* an object made from a frame block and a stream, each with a frame
\* override
C28_Witness ==
    /\ \E id \in DOMAIN streams : streams[id].frame_streams # EmptyDict
    /\ \E id \in DOMAIN objects :
          /\ objects[id].frame_objects # EmptyDict
          /\ objects[id].shapes["bboxes"].shapes = <<>>
          /\ \E f \in DOMAIN objects[id].frame_objects :
                objects[id].frame_objects[f].shapes["bboxes"].shapes # <<>>

---------------------------------------------------------------------------
(* Identity of the registry entities: label files and names that hold the  *)
(* separator "_" are ingested at top level.                                *)

SeparatorLabelFileIds == {<<"a">>, <<"a", "_", "b">>}
SeparatorKeys == {<<"c">>, <<"b", "_", "c">>}

NextIdentity ==
    \/ \E l \in SeparatorLabelFileIds, n \in SeparatorKeys, d \in CameraDicts :
          AddStreamTop(l, n, d)
    \/ \E l \in SeparatorLabelFileIds, k \in SeparatorKeys, d \in {CarDict, BareDict} :
          AddObjectTop(l, k, d)

SpecIdentity == Init /\ [][NextIdentity]_vars

\* the step ingests a (label_file_id, key) pair that `keys` does not hold
IngestsNewPair(op, keys) ==
    /\ call'.op = op
    /\ nops' = nops + 1
    /\ ~(/\ call'.label_file_id \in DOMAIN keys
         /\ (IF op = "add_stream" THEN call'.name ELSE call'.key) \in keys[call'.label_file_id])

\* C29 as stated: a step that ingests a (label_file_id, name) pair not
\* ingested before adds one entity to the registry and leaves every entity
\* stored for another pair as it was.
C29_IdentityByCompositeKey ==
    [][/\ IngestsNewPair("add_stream", stream_keys)
          => /\ Cardinality(DOMAIN streams') = Cardinality(DOMAIN streams) + 1
             /\ \A id \in DOMAIN streams : streams'[id] = streams[id]
       /\ IngestsNewPair("add_object", object_keys)
          => /\ Cardinality(DOMAIN objects') = Cardinality(DOMAIN objects) + 1
             /\ \A id \in DOMAIN objects : objects'[id] = objects[id]]_vars

---------------------------------------------------------------------------
(* Properties of the order of an object's ingests (SpecIngest) *)

\* the object that the dicts of the calls c1 and c2 make when c2 is
\* ingested first and c1 second
IngestedInOtherOrder(c1, c2) ==
    ObjectUpdateDict(ObjectFromAnnoDict(c2.key, c2.d, c2.frame_number),
                     c1.d, c1.frame_number)

\* the first two ingests of a behaviour are a top-level dict and a
\* frame-block dict of one (label_file_id, key), in either order
TopAndFrameOfOneObject ==
    /\ nops = 1 /\ nops' = 2
    /\ call.op = "add_object" /\ call'.op = "add_object"
    /\ call'.label_file_id = call.label_file_id
    /\ call'.key = call.key
    /\ (call.frame_number = None) # (call'.frame_number = None)

\* C30 as stated: the object stored after a top-level dict and a
\* frame-block dict of one (label_file_id, key) is the same whichever of
\* the two was ingested first (type, name, stream reference, shapes, other
\* attributes, frame overrides); a type declared at top level is the
\* object's type also when the frame block came first.
C30_OrderIndependence ==
    [][TopAndFrameOfOneObject
       => objects'[_get_element_id(call'.label_file_id, call'.key)]
             = IngestedInOtherOrder(call, call')]_vars

=============================================================================
